---- MODULE Spec2Model ----
(***************************************************************************)
(* CodeMeter: the shared JSONL store (append, readJsonl, compact with its  *)
(* lock file), the repositories over it, runSync and the attribution       *)
(* engine.                                                                 *)
(*                                                                         *)
(* A file line is modelled by what JSON.parse makes of it: [json |-> v]    *)
(* for a line that parses to the value v, [garbage |-> TRUE] for a line    *)
(* that makes JSON.parse throw (a truncated record), [blank |-> TRUE] for  *)
(* a line that is empty after trim().  Optional fields (endMs, lastError)  *)
(* are absent from the record, which is what JSON.stringify makes of an    *)
(* undefined property.                                                     *)
(***************************************************************************)
EXTENDS Integers, Sequences, FiniteSets, TLC

VARIABLES
  scope,      \* the store kinds that are written and compacted in this run
  now,        \* Date.now()
  log,        \* kind -> the <kind>.jsonl file
  snap,       \* kind -> the <kind>.snapshot.json file
  lock,       \* kind -> the <kind>.compact.lock file
  derived,    \* the index.cost_by_project_by_day.json file
  pc,         \* process -> position inside JsonlStorageDriver.compact
  pkind,      \* process -> the kind its compact call was given
  pstale,     \* process -> acquireLock decided that the lock file is stale
  pheld,      \* process -> acquireLock returned a handle
  pout,       \* process -> { snapshot, canonicalLines } of compactByKind
  perr,       \* process -> an exception is propagating out of compact
  pret,       \* process -> how its last compact call ended
  hist,       \* kind -> every record whose append returned, in order
  quiet,      \* kind -> a compaction completed and nothing was appended since
  pre,        \* process -> log and snapshot as they were when compact was called
  syncPc,     \* position inside runSync
  syncOpts,   \* the SyncOptions of the running runSync
  syncPrev,   \* previousHighWater of the running runSync
  syncEff,    \* effectiveStartMs of the running runSync
  syncQueue,  \* the fetched events the loop of runSync has not stored yet
  syncMax,    \* maxSeenEventMs of the running runSync
  fetchArgs,  \* the window last passed to client.fetchUsageEvents
  syncRet,    \* how the last runSync ended
  syncRuns,   \* number of runSync calls started
  ingested,   \* eventId -> how many times the loop of runSync stored it
  firstAttr,  \* eventId -> current attribution after its first ingestion
  stored,     \* lastFetchedMs of the last cursor record upserted
  seen,       \* lastFetchedMs that get() returned when the last runSync ended
  attrIn,     \* the (event, sessions) given to attributeEvent
  attrOut,    \* the AttributionResult it returned
  attrActive, \* activeSessions, as attributeEvent got it from findActiveSessions
  repoActive, \* what SessionRepository.getActiveSessions returned
  trk,        \* the fields of the ProjectSessionTracker of one IDE window
  env,        \* what vscode shows the tracker: workspace folders, window focus;
              \* the uuids handed out, the time the poll timer last fired
  signal,     \* the last signal the tracker handled, and what it found
  bk,         \* one withBackoff call: options, attempt, what fn did, the outcome
  fetched,    \* the events the connector returned to the running runSync
  ov,         \* run -> the locals of a runSync that overlaps the other run
  disk,       \* the directory seen one system call at a time: names, inodes,
              \* and where each compacting process is in its temp-file writes
  ilv,        \* what two processes appended to one kind, two logs holding it,
              \* and what the repository resolved from each
  readOut     \* what readJsonl returned

vars == <<scope, now, log, snap, lock, derived, pc, pkind, pstale, pheld, pout,
          perr, pret, hist, quiet, pre, syncPc, syncOpts, syncPrev, syncEff,
          syncQueue, syncMax, fetchArgs,
          syncRet, syncRuns, ingested, firstAttr, stored, seen, attrIn,
          attrOut, attrActive, repoActive, readOut, trk, env, signal, bk, ilv, fetched, ov, disk>>

storeVars == <<log, snap, lock, derived>>
procVars  == <<pc, pkind, pstale, pheld, pout, perr, pret, pre>>
ghostVars == <<hist, quiet>>
syncVars  == <<syncPc, syncOpts, syncPrev, syncEff, syncQueue, syncMax, fetchArgs, syncRet, syncRuns,
               ingested, firstAttr, stored, seen>>
pureVars  == <<attrIn, attrOut, attrActive, repoActive, readOut>>
trackerVars == <<trk, env, signal>>
auxVars == <<bk, ilv, fetched, ov, disk>>

----------------------------------------------------------------------------
(* Bounds *)

MaxLog == 2          \* appends per run of the store
MaxTicks == 2        \* steps of the clock per run
MaxSyncRuns == 3     \* runSync calls per run
MaxFetched == 2      \* events returned by one fetch
MaxSessions == 3     \* sessions given to attributeEvent
MaxLines == 3        \* lines of a log file given to readJsonl

Procs == {1, 2}

----------------------------------------------------------------------------
(* Program constants *)

LOCK_STALE_MS == 300000
LOOKBACK_MS == 300000

Kinds == {"projects", "sessions", "events", "attributions", "budgets", "sync_state"}

----------------------------------------------------------------------------
(* Plain helpers *)

Max(a, b) == IF a >= b THEN a ELSE b

Has(r, f) == f \in DOMAIN r

FieldOr(r, f, d) == IF f \in DOMAIN r THEN r[f] ELSE d

SeqsUpTo(S, n) == UNION {[1..m -> S] : m \in 0..n}

Range(s) == {s[i] : i \in DOMAIN s}

RECURSIVE Gcd(_, _)
Gcd(a, b) == IF b = 0 THEN a ELSE Gcd(b, a % b)

\* A confidence is a fraction num/den in lowest terms.
Frac(n, d) == LET g == Gcd(n, d) IN [num |-> n \div g, den |-> d \div g]

FracAdd(a, b) == Frac(a.num * b.den + b.num * a.den, a.den * b.den)

FracLess(a, b) == a.num * b.den < b.num * a.den

----------------------------------------------------------------------------
(* File contents *)

JsonLine(v) == [json |-> v]
GarbageLine == [garbage |-> TRUE]
BlankLine == [blank |-> TRUE]

NoLog == [exists |-> FALSE, lines |-> <<>>, open |-> FALSE]
NoSnap == [st |-> "none", items |-> <<>>]
GarbageSnap == [st |-> "garbage", items |-> <<>>]
ObjectSnap == [st |-> "object", items |-> <<>>]
ArraySnap(items) == [st |-> "array", items |-> items]
NoLock == [st |-> "none", pid |-> 0, mtimeMs |-> 0]
NoDerived == [st |-> "none", generatedAtMs |-> 0, byProjectByDay |-> {}]

\* readJsonl, the loop over content.split(/\r?\n/): blank lines are skipped,
\* a line that does not parse is ignored.
RECURSIVE ParseLines(_)
ParseLines(ls) ==
  IF ls = <<>> THEN <<>>
  ELSE IF Has(Head(ls), "json") THEN <<Head(ls).json>> \o ParseLines(Tail(ls))
  ELSE ParseLines(Tail(ls))

\* readJsonl: the snapshot when it exists and parses to an array, otherwise
\* the scan of the log; no log file gives [].
ReadJsonlNoFallback(s, l) ==
  IF s.st # "none" THEN s.items
  ELSE IF ~l.exists THEN <<>> ELSE ParseLines(l.lines)

readJsonlOf(s, l) ==
  IF s.st = "array" THEN s.items
  ELSE IF ~l.exists THEN <<>>
  ELSE ParseLines(l.lines)

readJsonl(kind) == readJsonlOf(snap[kind], log[kind])

\* fs.appendFileSync(file, line): the text goes after the last byte of the
\* file.  When the file ends inside a line (a crashed writer left a
\* truncated record without its newline) the text continues that line.
appendText(l, line) ==
  IF l.exists /\ l.open
    THEN [exists |-> TRUE, lines |-> l.lines, open |-> FALSE]
    ELSE [exists |-> TRUE, lines |-> Append(l.lines, line), open |-> FALSE]

----------------------------------------------------------------------------
(* A JavaScript Map: insertion-ordered; set() on a present key keeps its place *)

MapHas(m, key) == \E i \in DOMAIN m : m[i].k = key

MapGet(m, key) == m[CHOOSE i \in DOMAIN m : m[i].k = key].v

MapSetKeepFirst(m, key, val) ==
  IF MapHas(m, key) THEN m ELSE Append(m, [k |-> key, v |-> val])

MapSet(m, key, val) ==
  IF MapHas(m, key)
    THEN [i \in DOMAIN m |-> IF m[i].k = key THEN [k |-> key, v |-> val] ELSE m[i]]
    ELSE Append(m, [k |-> key, v |-> val])

MapValues(m) == [i \in DOMAIN m |-> m[i].v]

\* { ...prev, ...patch }
Spread(prev, patch) ==
  [f \in DOMAIN prev \cup DOMAIN patch |-> IF f \in DOMAIN patch THEN patch[f] ELSE prev[f]]

----------------------------------------------------------------------------
(* compactByKind *)

\* The property of a record line that holds the entity, and the entity's key.
EntityField(kind) ==
  CASE kind = "projects" -> "project"
    [] kind = "events" -> "event"
    [] kind = "attributions" -> "attribution"
    [] kind = "budgets" -> "budget"
    [] kind = "sync_state" -> "state"
    [] kind = "sessions" -> "session"

KeyField(kind) ==
  CASE kind = "projects" -> "projectKey"
    [] kind = "events" -> "eventId"
    [] kind = "attributions" -> "eventId"
    [] kind = "budgets" -> "projectKey"
    [] kind = "sync_state" -> "source"
    [] kind = "sessions" -> "id"

\* projects and budgets keep the record with the greatest lastActiveAt /
\* updatedAt (>=, so a tie goes to the later line); the others keep the last.
OrderField(kind) ==
  CASE kind = "projects" -> "lastActiveAt"
    [] kind = "budgets" -> "updatedAt"
    [] OTHER -> ""

\* { type: 'upsert', <entity field>: entity }
Wrap(kind, e) ==
  CASE kind = "projects" -> [type |-> "upsert", project |-> e]
    [] kind = "events" -> [type |-> "upsert", event |-> e]
    [] kind = "attributions" -> [type |-> "upsert", attribution |-> e]
    [] kind = "budgets" -> [type |-> "upsert", budget |-> e]
    [] kind = "sync_state" -> [type |-> "upsert", state |-> e]
    [] kind = "sessions" -> [type |-> "create", session |-> e]

\* r?.type === 'upsert' && r?.<entity>?.<key>
IsUpsert(kind, r) ==
  /\ Has(r, "type") /\ r.type = "upsert"
  /\ Has(r, EntityField(kind))
  /\ Has(r[EntityField(kind)], KeyField(kind))

\* One iteration of the loop of an upsert kind; the map holds entities.
UpsertStep(kind, m, r) ==
  IF ~IsUpsert(kind, r) THEN m
  ELSE LET e == r[EntityField(kind)]
           key == e[KeyField(kind)]
           ord == OrderField(kind)
       IN IF ord = "" THEN MapSet(m, key, e)
          ELSE IF ~MapHas(m, key) \/ FieldOr(e, ord, 0) >= FieldOr(MapGet(m, key), ord, 0)
                 THEN MapSet(m, key, e)
                 ELSE m

\* One iteration of the loop of the sessions kind.
SessionStep(m, r) ==
  IF Has(r, "type") /\ r.type = "create" /\ Has(r, "session") /\ Has(r.session, "id")
    THEN MapSet(m, r.session.id, r.session)
  ELSE IF Has(r, "type") /\ r.type = "update" /\ Has(r, "sessionId")
    THEN IF ~MapHas(m, r.sessionId) THEN m
         ELSE MapSet(m, r.sessionId, Spread(MapGet(m, r.sessionId), FieldOr(r, "patch", [x \in {} |-> 0])))
  ELSE m

RECURSIVE CompactFold(_, _, _)
CompactFold(kind, records, m) ==
  IF records = <<>> THEN m
  ELSE CompactFold(kind, Tail(records),
                   IF kind = "sessions" THEN SessionStep(m, Head(records))
                   ELSE UpsertStep(kind, m, Head(records)))

compactByKind(kind, records) ==
  LET ents == MapValues(CompactFold(kind, records, <<>>))
  IN [snapshot |-> ents,
      canonicalLines |-> [i \in DOMAIN ents |-> JsonLine(Wrap(kind, ents[i]))]]


----------------------------------------------------------------------------
(* Repositories: the resolution each one applies to driver.readAll *)

\* EventRepository.getAll, AttributionRepository.getAll, ProjectRepository's
\* and BudgetRepository's maps: r?.<entity>, skipped without its key.
RepoStep(kind, m, r) ==
  IF ~(Has(r, EntityField(kind)) /\ Has(r[EntityField(kind)], KeyField(kind))) THEN m
  ELSE LET e == r[EntityField(kind)]
           key == e[KeyField(kind)]
           ord == OrderField(kind)
       IN IF ord = "" THEN MapSet(m, key, e)
          ELSE IF ~MapHas(m, key) \/ FieldOr(e, ord, 0) >= FieldOr(MapGet(m, key), ord, 0)
                 THEN MapSet(m, key, e)
                 ELSE m

\* SessionRepository.getAll
SessionRepoStep(m, r) ==
  IF Has(r, "type") /\ r.type = "create"
    THEN MapSet(m, r.session.id, r.session)
  ELSE IF Has(r, "type") /\ r.type = "update"
    THEN IF ~MapHas(m, r.sessionId) THEN m
         ELSE MapSet(m, r.sessionId, Spread(MapGet(m, r.sessionId), FieldOr(r, "patch", [x \in {} |-> 0])))
  ELSE m

RECURSIVE RepoFold(_, _, _)
RepoFold(kind, records, m) ==
  IF records = <<>> THEN m
  ELSE RepoFold(kind, Tail(records),
                IF kind = "sessions" THEN SessionRepoStep(m, Head(records))
                ELSE RepoStep(kind, m, Head(records)))

\* <Kind>Repository.getAll over the given records, before any sort.
getAllOf(kind, records) == MapValues(RepoFold(kind, records, <<>>))

getAll(kind) == getAllOf(kind, readJsonl(kind))

Undefined == [undefined |-> TRUE]

\* AttributionRepository.getByEventId: the last record of that eventId.
RECURSIVE LastAttribution(_, _, _)
LastAttribution(records, eventId, last) ==
  IF records = <<>> THEN last
  ELSE LET r == Head(records)
       IN LastAttribution(Tail(records), eventId,
            IF Has(r, "attribution") /\ FieldOr(r.attribution, "eventId", "") = eventId
              THEN r.attribution ELSE last)

getByEventId(eventId) == LastAttribution(readJsonl("attributions"), eventId, Undefined)

\* SyncStateRepository.get: the last 'upsert' record of that source.
RECURSIVE LastState(_, _, _)
LastState(records, source, last) ==
  IF records = <<>> THEN last
  ELSE LET r == Head(records)
       IN LastState(Tail(records), source,
            IF Has(r, "type") /\ r.type = "upsert"
               /\ Has(r, "state") /\ FieldOr(r.state, "source", "") = source
              THEN r.state ELSE last)

syncGet(source) == LastState(readJsonl("sync_state"), source, Undefined)

\* Array.prototype.sort((a, b) => b.startMs - a.startMs): stable, descending.
RECURSIVE InsertByStartDesc(_, _)
InsertByStartDesc(sorted, s) ==
  IF sorted = <<>> THEN <<s>>
  ELSE IF Head(sorted).startMs >= s.startMs
         THEN <<Head(sorted)>> \o InsertByStartDesc(Tail(sorted), s)
         ELSE <<s>> \o sorted

RECURSIVE SortByStartDesc(_, _)
SortByStartDesc(ss, acc) ==
  IF ss = <<>> THEN acc
  ELSE SortByStartDesc(Tail(ss), InsertByStartDesc(acc, Head(ss)))

\* !s.endMs: the property is absent, or it is 0.
NoEndMs(s) == ~Has(s, "endMs") \/ s.endMs = 0

\* s.startMs <= t && (!s.endMs || s.endMs >= t)
IsActiveAt(s, t) == s.startMs <= t /\ (NoEndMs(s) \/ s.endMs >= t)

\* SessionRepository.getActiveSessions
getActiveSessionsOf(records, atTimestampMs) ==
  SortByStartDesc(SelectSeq(getAllOf("sessions", records),
                            LAMBDA s : IsActiveAt(s, atTimestampMs)), <<>>)

getActiveSessions(atTimestampMs) ==
  getActiveSessionsOf(readJsonl("sessions"), atTimestampMs)

----------------------------------------------------------------------------
(* AttributionEngine *)

findActiveSessions(timestampMs, sessions) ==
  SelectSeq(sessions, LAMBDA s : IsActiveAt(s, timestampMs))

createAttributionResult(event, session, confidence, reason) ==
  [event |-> event,
   attribution |-> [eventId |-> event.eventId, projectKey |-> session.projectKey,
                    confidence |-> confidence, reason |-> reason,
                    timestampMs |-> event.timestampMs],
   confidence |-> confidence,
   conflicts |-> <<>>]

createUnattributedResult(event, reason) ==
  [event |-> event,
   attribution |-> [eventId |-> event.eventId, projectKey |-> "unattributed",
                    confidence |-> Frac(0, 1), reason |-> reason,
                    timestampMs |-> event.timestampMs],
   confidence |-> Frac(0, 1),
   conflicts |-> <<>>]

createConflictResultTimesCount(event, conflicts, reason) ==
  LET confidence == Frac(Len(conflicts), 2)
  IN [event |-> event,
      attribution |-> [eventId |-> event.eventId, projectKey |-> conflicts[1].projectKey,
                       confidence |-> confidence,
                       reason |-> IF reason = "Multiple focused sessions"
                                    THEN "Multiple focused sessions - using primary session"
                                    ELSE "Multiple active sessions - using primary session",
                       timestampMs |-> event.timestampMs],
      confidence |-> confidence,
      conflicts |-> conflicts]

\* confidence = 0.5 / conflicts.length
createConflictResult(event, conflicts, reason) ==
  LET confidence == Frac(1, 2 * Len(conflicts))
  IN [event |-> event,
      attribution |-> [eventId |-> event.eventId, projectKey |-> conflicts[1].projectKey,
                       confidence |-> confidence,
                       reason |-> IF reason = "Multiple focused sessions"
                                    THEN "Multiple focused sessions - using primary session"
                                    ELSE "Multiple active sessions - using primary session",
                       timestampMs |-> event.timestampMs],
      confidence |-> confidence,
      conflicts |-> conflicts]

attributeEvent(event, sessions) ==
  LET activeSessions == findActiveSessions(event.timestampMs, sessions)
      focusedSessions == SelectSeq(activeSessions, LAMBDA s : s.focused)
      nonIdleSessions == SelectSeq(focusedSessions, LAMBDA s : ~s.idle)
  IN IF Len(activeSessions) = 0
       THEN createUnattributedResult(event, "No active sessions")
     ELSE IF Len(nonIdleSessions) = 1
       THEN createAttributionResult(event, nonIdleSessions[1], Frac(1, 1), "Single focused, non-idle session")
     ELSE IF Len(focusedSessions) = 1
       THEN createAttributionResult(event, focusedSessions[1], Frac(9, 10), "Single focused session")
     ELSE IF Len(activeSessions) = 1
       THEN createAttributionResult(event, activeSessions[1], Frac(7, 10), "Single active session")
     ELSE IF Len(focusedSessions) > 1
       THEN createConflictResult(event, focusedSessions, "Multiple focused sessions")
     ELSE createConflictResult(event, activeSessions, "Multiple active sessions")


----------------------------------------------------------------------------
(* tryBuildDerivedIndexes *)

MS_PER_DAY == 86400000

\* new Date(ms).toISOString().slice(0, 10), as the number of the UTC day
DayOf(timestampMs) == timestampMs \div MS_PER_DAY

\* attribByEvent: a?.eventId keyed, the last one wins
RECURSIVE AttribByEvent(_, _)
AttribByEvent(attributions, m) ==
  IF attributions = <<>> THEN m
  ELSE AttribByEvent(Tail(attributions),
         IF Has(Head(attributions), "eventId")
           THEN MapSet(m, Head(attributions).eventId, Head(attributions))
           ELSE m)

\* The loop over events: one entry per (projectKey, day).
RECURSIVE DerivedFold(_, _, _)
DerivedFold(events, byEvent, m) ==
  IF events = <<>> THEN m
  ELSE LET e == Head(events)
           hasA == Has(e, "eventId") /\ MapHas(byEvent, e.eventId)
           projectKey == IF hasA THEN MapGet(byEvent, e.eventId).projectKey ELSE "unattributed"
           conf == IF hasA THEN MapGet(byEvent, e.eventId).confidence ELSE Frac(0, 1)
           key == [projectKey |-> projectKey, day |-> DayOf(e.timestampMs)]
           prev == IF MapHas(m, key) THEN MapGet(m, key)
                   ELSE [totalCents |-> 0, eventCount |-> 0, confSum |-> Frac(0, 1)]
           cents == IF Has(e, "cost") THEN FieldOr(e.cost, "totalCents", 0) ELSE 0
       IN DerivedFold(Tail(events), byEvent,
            MapSet(m, key, [totalCents |-> prev.totalCents + cents,
                            eventCount |-> prev.eventCount + 1,
                            confSum |-> FracAdd(prev.confSum, conf)]))

\* new Date(undefined).toISOString() throws RangeError: an element of the
\* events read that has no timestampMs makes the rebuild throw.
DerivedThrows(events) == \E i \in DOMAIN events : ~Has(events[i], "timestampMs")

byProjectByDay(events, attributions) ==
  LET m == DerivedFold(events, AttribByEvent(attributions, <<>>), <<>>)
  IN {[projectKey |-> m[i].k.projectKey, day |-> m[i].k.day,
       totalCents |-> m[i].v.totalCents, eventCount |-> m[i].v.eventCount,
       confSum |-> m[i].v.confSum] : i \in DOMAIN m}

----------------------------------------------------------------------------
(* The records the processes append *)

Events ==
  {[eventId |-> "e1", timestampMs |-> 100000, cost |-> [totalCents |-> 5]],
   [eventId |-> "e1", timestampMs |-> 100000, cost |-> [totalCents |-> 9]],
   [eventId |-> "e2", timestampMs |-> 400000, cost |-> [totalCents |-> 7]]}

Sessions ==
  {[id |-> "s1", projectKey |-> "p1", startMs |-> 0, focused |-> TRUE, idle |-> FALSE,
    ideInstanceId |-> "i1"],
   [id |-> "s2", projectKey |-> "p2", startMs |-> 200000, focused |-> TRUE, idle |-> FALSE,
    ideInstanceId |-> "i2"]}

StoreRecords(kind) ==
  CASE kind = "projects" ->
         {[type |-> "upsert", project |-> [projectKey |-> k, lastActiveAt |-> t]] :
            k \in {"p1", "p2"}, t \in {1, 2}} \ {[type |-> "upsert", project |-> [projectKey |-> "p2", lastActiveAt |-> 2]]}
    [] kind = "budgets" ->
         {[type |-> "upsert", budget |-> [projectKey |-> k, monthlyCents |-> 100 * t, updatedAt |-> t]] :
            k \in {"p1", "p2"}, t \in {1, 2}} \ {[type |-> "upsert", budget |-> [projectKey |-> "p2", monthlyCents |-> 200, updatedAt |-> 2]]}
    [] kind = "events" -> {[type |-> "upsert", event |-> e] : e \in Events}
    [] kind = "attributions" ->
         {[type |-> "upsert", attribution |->
             [eventId |-> "e1", projectKey |-> "p1", confidence |-> Frac(1, 1),
              reason |-> "Single focused, non-idle session", timestampMs |-> 100000]],
          [type |-> "upsert", attribution |->
             [eventId |-> "e1", projectKey |-> "p2", confidence |-> Frac(1, 1),
              reason |-> "Manual reassignment", timestampMs |-> 100000]],
          [type |-> "upsert", attribution |->
             [eventId |-> "e2", projectKey |-> "unattributed", confidence |-> Frac(0, 1),
              reason |-> "No active sessions", timestampMs |-> 400000]]}
    [] kind = "sync_state" ->
         {[type |-> "upsert", state |-> [source |-> "cursor-dashboard", lastFetchedMs |-> 100000, lastSyncAtMs |-> 0]],
          [type |-> "upsert", state |-> [source |-> "cursor-dashboard", lastFetchedMs |-> 400000, lastSyncAtMs |-> 0]],
          [type |-> "upsert", state |-> [source |-> "cursor-admin", lastFetchedMs |-> 100000, lastSyncAtMs |-> 0]]}
    [] kind = "sessions" ->
         {[type |-> "create", session |-> s] : s \in Sessions}
         \cup {[type |-> "update", sessionId |-> "s1", patch |-> [endMs |-> 300000]]}


----------------------------------------------------------------------------
(* The store: append, and JsonlStorageDriver.compact one file operation at  *)
(* a time.  All of compact is synchronous, so a process appends only when   *)
(* it is not inside compact.                                                *)

NoOut == [snapshot |-> <<>>, canonicalLines |-> <<>>]
NoPre == [log |-> NoLog, snap |-> NoSnap, dirty |-> FALSE]

\* Marks the compact calls on kind that are under way as overtaken by a write.
Dirtied(kind) ==
  [q \in Procs |-> IF pc[q] # "idle" /\ pkind[q] = kind
                     THEN [pre[q] EXCEPT !.dirty = TRUE] ELSE pre[q]]

\* JsonlStorageDriver.append
append(p, kind, record) ==
  /\ pc[p] = "idle"
  /\ kind \in scope
  /\ Len(hist[kind]) < MaxLog
  \* a session is patched by the tracker that created it
  /\ record.type = "update" =>
       \E i \in DOMAIN hist[kind] :
         hist[kind][i].type = "create" /\ hist[kind][i].session.id = record.sessionId
  /\ log' = [log EXCEPT ![kind] = appendText(log[kind], JsonLine(record))]
  \* a record that continued a truncated line is not counted as appended
  /\ hist' = [hist EXCEPT ![kind] =
                IF log[kind].open THEN hist[kind] ELSE Append(hist[kind], record)]
  /\ quiet' = [quiet EXCEPT ![kind] = FALSE]
  /\ pre' = Dirtied(kind)
  /\ UNCHANGED <<scope, now, snap, lock, derived, pc, pkind, pstale, pheld, pout, perr, pret>>
  /\ UNCHANGED syncVars /\ UNCHANGED pureVars /\ UNCHANGED auxVars /\ UNCHANGED trackerVars

\* A writer outside Procs dies inside appendFileSync: a truncated record,
\* without its newline, is the end of the file.
CrashedAppend(kind) ==
  /\ kind \in scope
  /\ ~log[kind].open
  /\ GarbageLine \notin Range(log[kind].lines)
  /\ log' = [log EXCEPT ![kind] =
               [exists |-> TRUE, lines |-> Append(log[kind].lines, GarbageLine), open |-> TRUE]]
  /\ quiet' = [quiet EXCEPT ![kind] = FALSE]
  /\ pre' = Dirtied(kind)
  /\ UNCHANGED <<scope, now, snap, lock, derived, pc, pkind, pstale, pheld, pout, perr, pret, hist>>
  /\ UNCHANGED syncVars /\ UNCHANGED pureVars /\ UNCHANGED auxVars /\ UNCHANGED trackerVars

\* compact(kind) is called
CompactCall(p, kind) ==
  /\ pc[p] = "idle"
  /\ kind \in scope
  /\ pc' = [pc EXCEPT ![p] = "check"]
  /\ pkind' = [pkind EXCEPT ![p] = kind]
  /\ pstale' = [pstale EXCEPT ![p] = FALSE]
  /\ pheld' = [pheld EXCEPT ![p] = FALSE]
  /\ perr' = [perr EXCEPT ![p] = FALSE]
  /\ pret' = [pret EXCEPT ![p] = "running"]
  /\ pout' = [pout EXCEPT ![p] = NoOut]
  /\ pre' = [pre EXCEPT ![p] = [log |-> log[kind], snap |-> snap[kind], dirty |-> FALSE]]
  /\ UNCHANGED <<scope, now>> /\ UNCHANGED storeVars /\ UNCHANGED ghostVars
  /\ UNCHANGED syncVars /\ UNCHANGED pureVars /\ UNCHANGED auxVars /\ UNCHANGED trackerVars

IsStaleWhenHeld(l, t) == l.st = "held"

\* Date.now() - stat.mtimeMs > LOCK_STALE_MS
IsStale(l, t) == l.st = "held" /\ t - l.mtimeMs > LOCK_STALE_MS

\* acquireLock: existsSync + statSync, the decision to unlink
LockCheck(p) ==
  /\ pc[p] = "check"
  /\ pstale' = [pstale EXCEPT ![p] = IsStale(lock[pkind[p]], now)]
  /\ pc' = [pc EXCEPT ![p] = IF IsStale(lock[pkind[p]], now) THEN "unlink" ELSE "open"]
  /\ UNCHANGED <<scope, now, pkind, pheld, pout, perr, pret, pre>>
  /\ UNCHANGED storeVars /\ UNCHANGED ghostVars
  /\ UNCHANGED syncVars /\ UNCHANGED pureVars /\ UNCHANGED auxVars /\ UNCHANGED trackerVars

\* acquireLock: fs.unlinkSync(lockPath) of the stale lock; removes whatever
\* file is at the path now, an error is ignored
LockUnlink(p) ==
  /\ pc[p] = "unlink"
  /\ lock' = [lock EXCEPT ![pkind[p]] = NoLock]
  /\ pc' = [pc EXCEPT ![p] = "open"]
  /\ UNCHANGED <<scope, now, log, snap, derived, pkind, pstale, pheld, pout, perr, pret, pre>>
  /\ UNCHANGED ghostVars /\ UNCHANGED syncVars /\ UNCHANGED pureVars /\ UNCHANGED auxVars /\ UNCHANGED trackerVars

\* acquireLock: fs.openSync(lockPath, 'wx'); compact returns when it fails
LockOpen(p) ==
  /\ pc[p] = "open"
  /\ IF lock[pkind[p]].st = "none"
       THEN /\ lock' = [lock EXCEPT ![pkind[p]] = [st |-> "held", pid |-> p, mtimeMs |-> now]]
            /\ pheld' = [pheld EXCEPT ![p] = TRUE]
            /\ pc' = [pc EXCEPT ![p] = "read"]
            /\ pret' = pret
       ELSE /\ pc' = [pc EXCEPT ![p] = "idle"]
            /\ pret' = [pret EXCEPT ![p] = "skipped"]
            /\ UNCHANGED <<lock, pheld>>
  /\ UNCHANGED <<scope, now, log, snap, derived, pkind, pstale, pout, perr, pre>>
  /\ UNCHANGED ghostVars /\ UNCHANGED syncVars /\ UNCHANGED pureVars /\ UNCHANGED auxVars /\ UNCHANGED trackerVars

\* existsSync(file), readJsonl(kind), compactByKind(kind, records)
CompactRead(p) ==
  /\ pc[p] = "read"
  /\ IF ~log[pkind[p]].exists
       THEN /\ pc' = [pc EXCEPT ![p] = "release"]
            /\ pout' = pout
       ELSE /\ pout' = [pout EXCEPT ![p] = compactByKind(pkind[p], readJsonl(pkind[p]))]
            /\ pc' = [pc EXCEPT ![p] = "snap"]
  /\ UNCHANGED <<scope, now, pkind, pstale, pheld, perr, pret, pre>>
  /\ UNCHANGED storeVars /\ UNCHANGED ghostVars
  /\ UNCHANGED syncVars /\ UNCHANGED pureVars /\ UNCHANGED auxVars /\ UNCHANGED trackerVars

\* writeJsonSnapshot(kind, snapshot): temporary file, then rename
WriteSnapshot(p) ==
  /\ pc[p] = "snap"
  /\ snap' = [snap EXCEPT ![pkind[p]] = ArraySnap(pout[p].snapshot)]
  /\ pc' = [pc EXCEPT ![p] = "rewrite"]
  /\ UNCHANGED <<scope, now, log, lock, derived, pkind, pstale, pheld, pout, perr, pret, pre>>
  /\ UNCHANGED ghostVars /\ UNCHANGED syncVars /\ UNCHANGED pureVars /\ UNCHANGED auxVars /\ UNCHANGED trackerVars

\* writeFileSync(tmp, canonicalLines), renameSync(tmp, file)
RewriteLog(p) ==
  /\ pc[p] = "rewrite"
  /\ log' = [log EXCEPT ![pkind[p]] =
               [exists |-> TRUE, lines |-> pout[p].canonicalLines, open |-> FALSE]]
  /\ pc' = [pc EXCEPT ![p] = IF pkind[p] \in {"events", "attributions"} THEN "derived" ELSE "release"]
  /\ UNCHANGED <<scope, now, snap, lock, derived, pkind, pstale, pheld, pout, perr, pret, pre>>
  /\ UNCHANGED ghostVars /\ UNCHANGED syncVars /\ UNCHANGED pureVars /\ UNCHANGED auxVars /\ UNCHANGED trackerVars

\* tryBuildDerivedIndexes
BuildDerived(p) ==
  /\ pc[p] = "derived"
  /\ LET events == readJsonl("events")
         attributions == readJsonl("attributions")
     IN IF DerivedThrows(events)
          THEN /\ perr' = [perr EXCEPT ![p] = TRUE]
               /\ derived' = derived
          ELSE /\ derived' = [st |-> "index", generatedAtMs |-> now,
                              byProjectByDay |-> byProjectByDay(events, attributions)]
               /\ perr' = perr
  /\ pc' = [pc EXCEPT ![p] = "release"]
  /\ UNCHANGED <<scope, now, log, snap, lock, pkind, pstale, pheld, pout, pret, pre>>
  /\ UNCHANGED ghostVars /\ UNCHANGED syncVars /\ UNCHANGED pureVars /\ UNCHANGED auxVars /\ UNCHANGED trackerVars

\* A file operation of the try block throws (disk full, permission): nothing
\* is written by it and control goes to the finally block.
CompactThrow(p) ==
  /\ pc[p] \in {"read", "snap", "rewrite", "derived"}
  /\ perr' = [perr EXCEPT ![p] = TRUE]
  /\ pc' = [pc EXCEPT ![p] = "release"]
  /\ UNCHANGED <<scope, now, pkind, pstale, pheld, pout, pret, pre>>
  /\ UNCHANGED storeVars /\ UNCHANGED ghostVars
  /\ UNCHANGED syncVars /\ UNCHANGED pureVars /\ UNCHANGED auxVars /\ UNCHANGED trackerVars

ReleaseLockUnlessThrown(p) ==
  /\ pc[p] = "release"
  /\ lock' = [lock EXCEPT ![pkind[p]] = IF perr[p] THEN @ ELSE NoLock]
  /\ pc' = [pc EXCEPT ![p] = "idle"]
  /\ pheld' = [pheld EXCEPT ![p] = FALSE]
  /\ pret' = [pret EXCEPT ![p] = IF perr[p] THEN "threw" ELSE "ok"]
  /\ quiet' = [quiet EXCEPT ![pkind[p]] = ~perr[p] /\ ~pre[p].dirty]
  /\ pout' = [pout EXCEPT ![p] = NoOut]
  /\ pre' = [pre EXCEPT ![p] = NoPre]
  /\ UNCHANGED <<scope, now, log, snap, derived, pkind, pstale, perr, hist>>
  /\ UNCHANGED syncVars /\ UNCHANGED pureVars /\ UNCHANGED auxVars /\ UNCHANGED trackerVars

\* finally { releaseLock(lock) }: unlinks the file at the lock path, then
\* compact returns or the exception leaves it
ReleaseLock(p) ==
  /\ pc[p] = "release"
  /\ lock' = [lock EXCEPT ![pkind[p]] = NoLock]
  /\ pc' = [pc EXCEPT ![p] = "idle"]
  /\ pheld' = [pheld EXCEPT ![p] = FALSE]
  /\ pret' = [pret EXCEPT ![p] = IF perr[p] THEN "threw" ELSE "ok"]
  /\ quiet' = [quiet EXCEPT ![pkind[p]] = ~perr[p] /\ ~pre[p].dirty]
  /\ pout' = [pout EXCEPT ![p] = NoOut]
  /\ pre' = [pre EXCEPT ![p] = NoPre]
  /\ UNCHANGED <<scope, now, log, snap, derived, pkind, pstale, perr, hist>>
  /\ UNCHANGED syncVars /\ UNCHANGED pureVars /\ UNCHANGED auxVars /\ UNCHANGED trackerVars

\* Time passes, a little more than half the staleness threshold at a time.
TickMs == LOCK_STALE_MS \div 2 + 1

StartMs == LOCK_STALE_MS + 1

Tick ==
  /\ now + TickMs <= StartMs + MaxTicks * TickMs
  /\ now' = now + TickMs
  /\ UNCHANGED scope /\ UNCHANGED storeVars /\ UNCHANGED procVars
  /\ UNCHANGED ghostVars /\ UNCHANGED syncVars /\ UNCHANGED pureVars /\ UNCHANGED auxVars /\ UNCHANGED trackerVars

CompactStep(p) ==
  \/ LockCheck(p) \/ LockUnlink(p) \/ LockOpen(p) \/ CompactRead(p)
  \/ WriteSnapshot(p) \/ RewriteLog(p) \/ BuildDerived(p) \/ CompactThrow(p)
  \/ ReleaseLock(p)

----------------------------------------------------------------------------
(* Initial values *)

NoAttr == [eventId |-> "", projectKey |-> "", confidence |-> Frac(0, 1),
           reason |-> "", timestampMs |-> 0]

\* The lock file of a compactor that died long ago.
LeftoverLock == [st |-> "held", pid |-> 0, mtimeMs |-> 0]

InitStore ==
  /\ now = StartMs
  /\ log = [k \in Kinds |-> NoLog]
  /\ snap = [k \in Kinds |-> NoSnap]
  /\ \E l \in {NoLock, LeftoverLock} : lock = [k \in Kinds |-> IF k \in scope THEN l ELSE NoLock]
  /\ derived = NoDerived
  /\ hist = [k \in Kinds |-> <<>>]
  /\ quiet = [k \in Kinds |-> FALSE]

InitProcs ==
  /\ pc = [p \in Procs |-> "idle"]
  /\ pkind = [p \in Procs |-> "none"]
  /\ pstale = [p \in Procs |-> FALSE]
  /\ pheld = [p \in Procs |-> FALSE]
  /\ pout = [p \in Procs |-> NoOut]
  /\ perr = [p \in Procs |-> FALSE]
  /\ pret = [p \in Procs |-> "none"]
  /\ pre = [p \in Procs |-> NoPre]

InitSync ==
  /\ syncPc = "idle"
  /\ syncOpts = [mode |-> "cursor-dashboard", startMs |-> 0, endMs |-> 0]
  /\ syncPrev = 0
  /\ syncEff = 0
  /\ syncQueue = <<>>
  /\ syncMax = 0
  /\ fetchArgs = [startMs |-> 0, endMs |-> 0]
  /\ syncRet = [status |-> "none", error |-> ""]
  /\ syncRuns = 0
  /\ ingested = [e \in {"e1", "e2"} |-> 0]
  /\ firstAttr = [e \in {"e1", "e2"} |-> NoAttr]
  /\ stored = 0
  /\ seen = 0

InitPure ==
  /\ attrIn = [called |-> FALSE, event |-> [eventId |-> "", timestampMs |-> 0], sessions |-> <<>>]
  /\ attrOut = createUnattributedResult([eventId |-> "", timestampMs |-> 0], "")
  /\ attrActive = <<>>
  /\ repoActive = [called |-> FALSE, value |-> <<>>]
  /\ readOut = [called |-> FALSE, value |-> <<>>]

\* null, for the tracker's string fields
Null == ""

NoSignal == [op |-> "none", at |-> 0, open |-> Null, projectKey |-> Null, rotated |-> FALSE]

\* No tracker has been constructed.
InitNoTracker ==
  /\ trk = [ideInstanceId |-> Null, ideType |-> "vscode", idleMs |-> 0,
            currentSessionId |-> Null, currentProjectKey |-> Null,
            currentWorkspaceFolders |-> <<>>, currentWorkspacePath |-> Null,
            idle |-> FALSE, focused |-> TRUE, lastActivityAt |-> 0,
            timer |-> FALSE, listening |-> FALSE, started |-> FALSE, disposed |-> FALSE]
  /\ env = [folders |-> <<>>, focused |-> TRUE, uuids |-> 0, timerAt |-> 0, elapses |-> 0, signals |-> 0]
  /\ signal = NoSignal

\* withBackoff has not been called.
NoBackoff == [pc |-> "none", opts |-> [none |-> TRUE], attempt |-> 0, calls |-> 0,
              errors |-> <<>>, delays |-> <<>>, hints |-> <<>>, returned |-> "", thrown |-> ""]

\* The files compact replaces, by the process that replaces them: process 1
\* compacts the events store, process 2 the attributions store
Writers == {1, 2}
WriterKind(p) == IF p = 1 THEN "events" ELSE "attributions"
DerivedFile == "index.cost_by_project_by_day.json"
Stages == <<"snapshot", "log", "derived">>

TargetFile(p, stage) ==
  CASE stage = "snapshot" -> WriterKind(p) \o ".snapshot.json"
    [] stage = "log" -> WriterKind(p) \o ".jsonl"
    [] stage = "derived" -> DerivedFile

\* file + '.tmp', and `${kind}.jsonl.tmp` for the log
TmpFile(p, stage) == TargetFile(p, stage) \o ".tmp"

Targets == {TargetFile(p, Stages[i]) : p \in Writers, i \in DOMAIN Stages}
Paths == Targets \cup {TmpFile(p, Stages[i]) : p \in Writers, i \in DOMAIN Stages}

\* A file's content as the two halves a write lays down
Blank == [w |-> 0 - 1, c |-> 0, i |-> 0]
Chunk(w, c, i) == [w |-> w, c |-> c, i |-> i]
Content(w, c) == <<Chunk(w, c, 1), Chunk(w, c, 2)>>
Truncated == <<Blank, Blank>>

\* Every target exists, completely written some time ago
InitialDisk ==
  LET order == CHOOSE f \in [1..Cardinality(Targets) -> Targets] :
                 \A a, b \in DOMAIN f : a # b => f[a] # f[b]
  IN [names |-> [path \in Paths |->
                   IF path \in Targets THEN CHOOSE n \in DOMAIN order : order[n] = path ELSE 0],
      inodes |-> [n \in DOMAIN order |-> Content(0, 0)],
      at |-> [p \in Writers |-> [stage |-> 0, sys |-> "idle"]],
      fd |-> [p \in Writers |-> 0],
      calls |-> [p \in Writers |-> 0],
      threw |-> [p \in Writers |-> FALSE]]

OverlapRuns == {1, 2}

NoOverlap == [r \in OverlapRuns |-> [pc |-> "idle", opts |-> [mode |-> "cursor-dashboard", startMs |-> 0, endMs |-> 0],
                                    previousHighWater |-> 0, effectiveStartMs |-> 0, calls |-> 0]]

NoInterleaving == [kind |-> "none", a |-> <<>>, b |-> <<>>, log1 |-> <<>>, log2 |-> <<>>,
                   resolved |-> FALSE, out1 |-> {}, out2 |-> {}]

InitAux ==
  /\ bk = NoBackoff
  /\ ilv = NoInterleaving
  /\ fetched = <<>>
  /\ ov = NoOverlap
  /\ disk = InitialDisk

----------------------------------------------------------------------------
(* The store written and compacted by two processes, one kind per run *)

Init ==
  /\ scope \in {{k} : k \in Kinds}
  /\ InitStore /\ InitProcs /\ InitSync /\ InitPure /\ InitNoTracker /\ InitAux

Next ==
  \/ \E p \in Procs, k \in Kinds : \E r \in StoreRecords(k) : append(p, k, r)
  \/ \E k \in Kinds : CrashedAppend(k)
  \/ \E k \in Kinds : CompactCall(1, k)
  \/ CompactStep(1)

Spec == Init /\ [][Next]_vars


\* One process appends and compacts; a foreign writer may crash.
NextSeq ==
  \/ \E k \in Kinds : \E r \in StoreRecords(k) : append(1, k, r)
  \/ \E k \in Kinds : CrashedAppend(k)
  \/ \E k \in Kinds : CompactCall(1, k)
  \/ CompactStep(1)

SpecSeq == Init /\ [][NextSeq]_vars

\* Two processes compact the same store while time passes; nothing is appended.
InitLock ==
  /\ scope = {"events"}
  /\ now = StartMs
  /\ log = [k \in Kinds |->
              IF k = "events"
                THEN [exists |-> TRUE,
                      lines |-> <<JsonLine([type |-> "upsert",
                                            event |-> [eventId |-> "e1", timestampMs |-> 100000,
                                                       cost |-> [totalCents |-> 5]]])>>,
                      open |-> FALSE]
                ELSE NoLog]
  /\ snap = [k \in Kinds |-> NoSnap]
  /\ \E l \in {NoLock, LeftoverLock} : lock = [k \in Kinds |-> IF k \in scope THEN l ELSE NoLock]
  /\ derived = NoDerived
  /\ hist = [k \in Kinds |-> <<>>]
  /\ quiet = [k \in Kinds |-> FALSE]
  /\ InitProcs /\ InitSync /\ InitPure /\ InitNoTracker /\ InitAux

NextLock ==
  \/ \E p \in Procs, k \in Kinds : CompactCall(p, k)
  \/ \E p \in Procs : CompactStep(p)
  \/ Tick

SpecLock == InitLock /\ [][NextLock]_vars

----------------------------------------------------------------------------
(* Claims about the store *)

\* The key of a record line, and of whatever readJsonl returned
RecordKey(kind, r) ==
  IF kind = "sessions"
    THEN (IF r.type = "create" THEN r.session.id ELSE r.sessionId)
    ELSE r[EntityField(kind)][KeyField(kind)]

ReadKeys(kind) ==
  LET rs == readJsonl(kind)
  IN {IF Has(rs[i], "type") THEN RecordKey(kind, rs[i]) ELSE rs[i][KeyField(kind)] :
        i \in DOMAIN rs}

CompactReturnsOk(p) == pc[p] = "release" /\ ~perr[p] /\ pc'[p] = "idle"

\* C1: when compact(kind) returns, every record appended to the kind so far
\* (before, between or during compactions) is reflected by readAll: readAll
\* returns a record or an entity of the same key.
C1_NoRecordLost ==
  [][\A p \in Procs : CompactReturnsOk(p) =>
        \A i \in DOMAIN hist'[pkind[p]] :
          RecordKey(pkind[p], hist'[pkind[p]][i]) \in ReadKeys(pkind[p])']_vars

\* C3: a compaction that follows a completed compaction of the same kind,
\* with nothing written in between, writes the snapshot content that is there.
C3_CompactTwiceSameSnapshot ==
  [][\A p \in Procs :
       (pc[p] = "snap" /\ pc'[p] = "rewrite" /\ quiet[pkind[p]]) =>
          snap'[pkind[p]] = snap[pkind[p]]]_vars

\* C4: when an exception leaves compact(kind), and nobody else wrote the kind
\* meanwhile, log and snapshot are what they were when compact was called.
C4_FailedCompactLeavesFiles ==
  \A p \in Procs :
    (pc[p] = "release" /\ perr[p] /\ ~pre[p].dirty) =>
       /\ log[pkind[p]] = pre[p].log
       /\ snap[pkind[p]] = pre[p].snap

\* C5: at most one process holds the compaction lock of a kind.
C5_OneCompactorPerKind ==
  \A p, q \in Procs :
    (pheld[p] /\ pheld[q] /\ pkind[p] = pkind[q]) => p = q


----------------------------------------------------------------------------
(* runSync, one await or one loop turn at a time *)

SyncModes == {"cursor-dashboard"}

\* The requested window starts: the beginning, and a later instant
SyncStarts == {0, 200000}

NoTokenError == "Cursor session token not set"
StorageError == "ENOSPC"
FetchError == "fetch failed"

SyncSource(mode) == IF mode = "cursor-admin" THEN "cursor-admin" ELSE "cursor-dashboard"

effectiveStartMsCursorOnly(startMs, previousHighWater) ==
  Max(0, previousHighWater - LOOKBACK_MS)

\* Math.max(opts.startMs, Math.max(0, previousHighWater - LOOKBACK_MS))
effectiveStartMs(startMs, previousHighWater) ==
  Max(startMs, Max(0, previousHighWater - LOOKBACK_MS))

\* state?.lastFetchedMs ?? 0 of SyncStateRepository.get(source)
CursorMsOf(s, l, source) ==
  FieldOr(LastState(readJsonlOf(s, l), source, Undefined), "lastFetchedMs", 0)

CursorMs(source) == CursorMsOf(snap["sync_state"], log["sync_state"], source)

AppendedLog(lg, kind, record) == [lg EXCEPT ![kind] = appendText(lg[kind], JsonLine(record))]

AppendedHist(h, lg, kind, record) ==
  [h EXCEPT ![kind] = IF lg[kind].open THEN h[kind] ELSE Append(h[kind], record)]

\* runSync up to its first await: the cursor is read, the window computed
SyncStart(opts) ==
  /\ syncPc = "idle"
  /\ syncRuns < MaxSyncRuns
  /\ LET previousHighWater == CursorMs(SyncSource(opts.mode))
     IN /\ syncPrev' = previousHighWater
        /\ syncEff' = effectiveStartMs(opts.startMs, previousHighWater)
  /\ syncOpts' = opts
  /\ syncPc' = "secret"
  /\ syncRuns' = syncRuns + 1
  /\ syncRet' = [status |-> "running", error |-> ""]
  /\ syncQueue' = <<>>
  /\ syncMax' = 0
  /\ UNCHANGED <<scope, now, fetchArgs, ingested, firstAttr, stored, seen>>
  /\ UNCHANGED storeVars /\ UNCHANGED procVars /\ UNCHANGED ghostVars /\ UNCHANGED pureVars /\ UNCHANGED auxVars /\ UNCHANGED trackerVars

\* The catch block of runSync
SyncCatch(lastError) ==
  LET source == SyncSource(syncOpts.mode)
      record == [type |-> "upsert",
                 state |-> [source |-> source, lastFetchedMs |-> syncPrev,
                            lastSyncAtMs |-> now, lastError |-> lastError]]
  IN /\ log' = AppendedLog(log, "sync_state", record)
     /\ hist' = AppendedHist(hist, log, "sync_state", record)
     /\ quiet' = [quiet EXCEPT !["sync_state"] = FALSE]
     /\ pre' = Dirtied("sync_state")
     /\ syncPc' = "idle"
     /\ syncRet' = [status |-> "threw", error |-> lastError]
     /\ UNCHANGED <<scope, now, snap, lock, derived, pc, pkind, pstale, pheld, pout, perr, pret>>
     /\ stored' = syncPrev
     /\ UNCHANGED <<syncOpts, syncPrev, syncEff, syncQueue, syncMax, fetchArgs, syncRuns,
                    ingested, firstAttr>>
     /\ UNCHANGED pureVars /\ UNCHANGED auxVars /\ UNCHANGED trackerVars
     /\ seen' = CursorMsOf(snap'["sync_state"], log'["sync_state"], source)

\* secrets.get resolves to nothing
SyncNoToken ==
  /\ syncPc = "secret"
  /\ SyncCatch(NoTokenError)

\* client.fetchUsageEvents is called
SyncFetchCall ==
  /\ syncPc = "secret"
  /\ fetchArgs' = [startMs |-> syncEff, endMs |-> syncOpts.endMs]
  /\ syncPc' = "fetching"
  /\ UNCHANGED <<scope, now, syncOpts, syncPrev, syncEff, syncQueue, syncMax, syncRet, syncRuns,
                 ingested, firstAttr, stored, seen>>
  /\ UNCHANGED storeVars /\ UNCHANGED procVars /\ UNCHANGED ghostVars /\ UNCHANGED pureVars /\ UNCHANGED auxVars /\ UNCHANGED trackerVars

\* client.fetchUsageEvents rejects
SyncFetchFail ==
  /\ syncPc = "fetching"
  /\ SyncCatch(FetchError)

\* client.fetchUsageEvents resolves
SyncFetchOk(events) ==
  /\ syncPc = "fetching"
  /\ syncQueue' = events
  /\ fetched' = events
  /\ syncMax' = syncPrev
  /\ syncPc' = "loop"
  /\ UNCHANGED <<scope, now, syncOpts, syncPrev, syncEff, fetchArgs, syncRet, syncRuns,
                 ingested, firstAttr, stored, seen, bk, ilv, ov, disk>>
  /\ UNCHANGED storeVars /\ UNCHANGED procVars /\ UNCHANGED ghostVars /\ UNCHANGED pureVars /\ UNCHANGED trackerVars

\* One turn of the loop over the fetched events
SyncIngest ==
  /\ syncPc = "loop"
  /\ syncQueue # <<>>
  /\ LET e == Head(syncQueue)
         eventRecord == [type |-> "upsert", event |-> e]
         activeSessions == getActiveSessions(e.timestampMs)
         result == attributeEvent(e, activeSessions)
         attributionRecord == [type |-> "upsert", attribution |-> result.attribution]
         log1 == AppendedLog(log, "events", eventRecord)
         hist1 == AppendedHist(hist, log, "events", eventRecord)
     IN /\ log' = AppendedLog(log1, "attributions", attributionRecord)
        /\ hist' = AppendedHist(hist1, log1, "attributions", attributionRecord)
        /\ syncMax' = IF e.timestampMs > syncMax THEN e.timestampMs ELSE syncMax
        /\ ingested' = [ingested EXCEPT ![e.eventId] = @ + 1]
        /\ snap' = snap
        /\ firstAttr' = [firstAttr EXCEPT ![e.eventId] =
                           IF ingested[e.eventId] = 0
                             THEN LastAttribution(readJsonlOf(snap'["attributions"], log'["attributions"]),
                                                  e.eventId, Undefined)
                             ELSE @]
  /\ syncQueue' = Tail(syncQueue)
  /\ quiet' = [quiet EXCEPT !["events"] = FALSE, !["attributions"] = FALSE]
  /\ pre' = [q \in Procs |-> IF pc[q] # "idle" /\ pkind[q] \in {"events", "attributions"}
                               THEN [pre[q] EXCEPT !.dirty = TRUE] ELSE pre[q]]
  /\ UNCHANGED <<scope, now, lock, derived, pc, pkind, pstale, pheld, pout, perr, pret>>
  /\ UNCHANGED <<syncPc, syncOpts, syncPrev, syncEff, fetchArgs, syncRet, syncRuns, stored, seen>>
  /\ UNCHANGED pureVars /\ UNCHANGED auxVars /\ UNCHANGED trackerVars

\* appendFileSync throws in one turn of the loop, in eventsRepo.create or,
\* the event appended, in attributionRepo.create: the loop has no catch
SyncAppendFails(inAttribution) ==
  /\ syncPc = "loop"
  /\ syncQueue # <<>>
  /\ LET e == Head(syncQueue)
         eventRecord == [type |-> "upsert", event |-> e]
     IN IF inAttribution
          THEN /\ log' = AppendedLog(log, "events", eventRecord)
               /\ hist' = AppendedHist(hist, log, "events", eventRecord)
               /\ quiet' = [quiet EXCEPT !["events"] = FALSE]
               /\ pre' = Dirtied("events")
          ELSE UNCHANGED <<log, hist, quiet, pre>>
  /\ syncPc' = "idle"
  /\ syncRet' = [status |-> "threw", error |-> StorageError]
  /\ UNCHANGED <<scope, now, snap, lock, derived, pc, pkind, pstale, pheld, pout, perr, pret>>
  /\ UNCHANGED <<syncOpts, syncPrev, syncEff, syncQueue, syncMax, fetchArgs, syncRuns,
                 ingested, firstAttr, stored, seen>>
  /\ UNCHANGED pureVars /\ UNCHANGED auxVars /\ UNCHANGED trackerVars

\* The cursor is written and runSync returns
SyncFinish ==
  /\ syncPc = "loop"
  /\ syncQueue = <<>>
  /\ LET source == SyncSource(syncOpts.mode)
         record == [type |-> "upsert",
                    state |-> [source |-> source, lastFetchedMs |-> syncMax,
                               lastSyncAtMs |-> now]]
     IN /\ log' = AppendedLog(log, "sync_state", record)
        /\ hist' = AppendedHist(hist, log, "sync_state", record)
        /\ snap' = snap
        /\ seen' = CursorMsOf(snap'["sync_state"], log'["sync_state"], source)
  /\ stored' = syncMax
  /\ quiet' = [quiet EXCEPT !["sync_state"] = FALSE]
  /\ pre' = Dirtied("sync_state")
  /\ syncPc' = "idle"
  /\ syncRet' = [status |-> "ok", error |-> ""]
  /\ UNCHANGED <<scope, now, lock, derived, pc, pkind, pstale, pheld, pout, perr, pret>>
  /\ UNCHANGED <<syncOpts, syncPrev, syncEff, syncQueue, syncMax, fetchArgs, syncRuns,
                 ingested, firstAttr>>
  /\ UNCHANGED pureVars /\ UNCHANGED auxVars /\ UNCHANGED trackerVars

SyncKinds == {"events", "attributions", "sync_state"}

\* What the connector returns: usage events, the same one twice at times
FetchedEvents ==
  {[eventId |-> "e1", timestampMs |-> 100000, cost |-> [totalCents |-> 5]],
   [eventId |-> "e2", timestampMs |-> 400000, cost |-> [totalCents |-> 7]]}

\* The session the tracker has written before the syncs
SessionLog ==
  <<[type |-> "create", session |-> [id |-> "s1", projectKey |-> "p1", startMs |-> 0,
                                     focused |-> TRUE, idle |-> FALSE, ideInstanceId |-> "i1"]]>>

InitSyncStore ==
  /\ now = StartMs
  /\ log = [k \in Kinds |-> IF k = "sessions"
                              THEN [exists |-> TRUE,
                                    lines |-> [i \in DOMAIN SessionLog |-> JsonLine(SessionLog[i])],
                                    open |-> FALSE]
                              ELSE NoLog]
  /\ hist = [k \in Kinds |-> IF k = "sessions" THEN SessionLog ELSE <<>>]
  /\ snap = [k \in Kinds |-> NoSnap]
  /\ lock = [k \in Kinds |-> NoLock]
  /\ derived = NoDerived
  /\ quiet = [k \in Kinds |-> FALSE]
  /\ InitProcs /\ InitSync /\ InitPure /\ InitNoTracker /\ InitAux

InitSyncOnly == scope = {} /\ InitSyncStore

\* runSync calls one after the other
NextSyncOnly ==
  \/ \E m \in SyncModes, st \in SyncStarts :
       SyncStart([mode |-> m, startMs |-> st, endMs |-> now])
  \/ SyncNoToken
  \/ SyncFetchCall
  \/ SyncFetchFail
  \/ \E evs \in SeqsUpTo(FetchedEvents, MaxFetched) : SyncFetchOk(evs)
  \/ SyncIngest
  \/ SyncFinish

SpecSyncOnly == InitSyncOnly /\ [][NextSyncOnly]_vars

InitSyncCompact == scope \in {{k} : k \in SyncKinds} /\ InitSyncStore

\* runSync calls one after the other, and between them compactions of one
\* store that meet no lock and no I/O error
NextSync ==
  \/ \E m \in SyncModes, st \in SyncStarts :
       pc[1] = "idle" /\ SyncStart([mode |-> m, startMs |-> st, endMs |-> now])
  \/ SyncNoToken
  \/ SyncFetchCall
  \/ SyncFetchFail
  \/ \E evs \in SeqsUpTo(FetchedEvents, MaxFetched) : SyncFetchOk(evs)
  \/ SyncIngest
  \/ SyncFinish
  \/ \E k \in SyncKinds : syncPc = "idle" /\ CompactCall(1, k)
  \/ LockCheck(1)
  \/ LockOpen(1)
  \/ CompactRead(1)
  \/ WriteSnapshot(1)
  \/ RewriteLog(1)
  \/ BuildDerived(1)
  \/ ReleaseLock(1)

SpecSync == InitSyncCompact /\ [][NextSync]_vars

InitSyncDisk == scope = {"events"} /\ InitSyncStore

\* runSync calls on a disk whose appends can fail, and between them
\* compactions of the events store
NextSyncDisk ==
  \/ \E m \in SyncModes, st \in SyncStarts :
       pc[1] = "idle" /\ SyncStart([mode |-> m, startMs |-> st, endMs |-> now])
  \/ SyncNoToken
  \/ SyncFetchCall
  \/ SyncFetchFail
  \/ \E evs \in SeqsUpTo(FetchedEvents, MaxFetched) : SyncFetchOk(evs)
  \/ SyncIngest
  \/ \E inAttribution \in BOOLEAN : SyncAppendFails(inAttribution)
  \/ SyncFinish
  \/ \E k \in SyncKinds : syncPc = "idle" /\ CompactCall(1, k)
  \/ LockCheck(1)
  \/ LockOpen(1)
  \/ CompactRead(1)
  \/ WriteSnapshot(1)
  \/ RewriteLog(1)
  \/ BuildDerived(1)
  \/ ReleaseLock(1)

SpecSyncDisk == InitSyncDisk /\ [][NextSyncDisk]_vars

----------------------------------------------------------------------------
(* Claims about runSync *)

EventIds == {"e1", "e2"}

CountOf(eventId, events) ==
  Cardinality({i \in DOMAIN events : events[i].eventId = eventId})

\* C2: once an event has been ingested twice, a compaction of the events store
\* that returns leaves EventRepository.getAll with that eventId exactly once
\* and AttributionRepository.getByEventId with the attribution the first
\* ingestion gave it.
C2_IngestTwiceOneRecord ==
  [][(CompactReturnsOk(1) /\ pkind[1] = "events") =>
       \A id \in EventIds :
         ingested[id] >= 2 =>
           /\ CountOf(id, getAll("events")') = 1
           /\ getByEventId(id)' = firstAttr[id]]_vars

SyncEnds == syncPc # "idle" /\ syncPc' = "idle"

\* C7: over runSync calls one after another, compactions in between, the
\* lastFetchedMs that SyncStateRepository.get returns when a call ends is not
\* below what it returned when the call before ended if the call succeeded,
\* and equal to it if the call failed.
C7_CursorMonotonic ==
  [][SyncEnds =>
       /\ syncRet'.status = "ok" => seen' >= seen
       /\ syncRet'.status = "threw" => seen' = seen]_vars

LastLine(l) == l.lines[Len(l.lines)]

\* C8: a runSync whose fetch fails appends a cursor record that carries the
\* lastFetchedMs of the cursor record stored before (0 when none) and the
\* error string, stores no event and no attribution, and throws that error.
C8_FailureKeepsCursor ==
  [][(SyncEnds /\ syncRet'.status = "threw") =>
       /\ Len(log'["sync_state"].lines) = Len(log["sync_state"].lines) + 1
       /\ LastLine(log'["sync_state"]).json.state.lastFetchedMs = stored
       /\ LastLine(log'["sync_state"]).json.state.lastError = syncRet'.error
       /\ syncRet'.error \in {NoTokenError, FetchError}
       /\ log'["events"] = log["events"]
       /\ log'["attributions"] = log["attributions"]]_vars

LookbackCase ==
  /\ syncPc = "fetching"
  /\ CursorMs(SyncSource(syncOpts.mode)) = 100000
  /\ syncOpts.startMs = 200000

\* C9 as stated: with a stored cursor of 100000, a sync asked to start at
\* 200000 hands 195000 to the event source as the start of the window.
C9_FetchesFrom195000 == LookbackCase => fetchArgs.startMs = 195000

\* C9 amended: with a stored cursor of 100000, a sync asked to start at 200000
\* hands 200000 to the event source as the start of the window (the larger of
\* the requested start and the cursor less LOOKBACK_MS, floored at 0), and the
\* requested end as its end.
C9_FetchesFromRequestedStart ==
  LookbackCase => /\ fetchArgs.startMs = 200000
                  /\ fetchArgs.endMs = syncOpts.endMs

C9_Witness == LookbackCase /\ fetchArgs.startMs = 200000 /\ syncRuns = 2

\* C26: the window handed to the event source starts at the larger of the
\* requested start and the stored cursor's lastFetchedMs less the lookback
\* window floored at 0, the cursor counting as 0 when none was ever stored,
\* and ends at the requested end.
C26_FetchWindow ==
  syncPc = "fetching" =>
    /\ fetchArgs.startMs = Max(syncOpts.startMs, Max(0, stored - LOOKBACK_MS))
    /\ fetchArgs.endMs = syncOpts.endMs

RECURSIVE MaxTimestamp(_, _)
MaxTimestamp(events, floor) ==
  IF events = <<>> THEN floor
  ELSE MaxTimestamp(Tail(events), Max(floor, Head(events).timestampMs))

\* C27: when runSync returns its count, every fetched event is in
\* EventRepository.getAll and its current attribution is attributeEvent of it
\* and the sessions active at its timestamp; the cursor record is the last
\* thing written, after every event, and carries the largest of the cursor
\* stored before and the fetched timestamps, and no error. When an append in
\* the loop throws, runSync throws and the cursor files are as they were.
C27_SyncSuccessWritesAll ==
  [][/\ (SyncEnds /\ syncRet'.status = "ok") =>
          /\ \A i \in DOMAIN fetched :
               /\ fetched[i] \in Range(getAllOf("events", readJsonlOf(snap'["events"], log'["events"])))
               /\ LastAttribution(readJsonlOf(snap'["attributions"], log'["attributions"]),
                                  fetched[i].eventId, Undefined)
                    = attributeEvent(fetched[i], getActiveSessions(fetched[i].timestampMs)).attribution
          /\ syncQueue = <<>>
          /\ log'["events"] = log["events"] /\ log'["attributions"] = log["attributions"]
          /\ LastLine(log'["sync_state"]).json.state.lastFetchedMs = MaxTimestamp(fetched, stored)
          /\ ~Has(LastLine(log'["sync_state"]).json.state, "lastError")
     /\ (SyncEnds /\ syncRet'.error = StorageError) =>
          /\ syncRet'.status = "threw"
          /\ log'["sync_state"] = log["sync_state"]
          /\ snap'["sync_state"] = snap["sync_state"]]_vars

----------------------------------------------------------------------------
(* readJsonl applied to the files a crash or a foreign hand can leave *)

ReadLines ==
  {JsonLine([type |-> "upsert", event |-> [eventId |-> "e1", timestampMs |-> 100000, cost |-> [totalCents |-> 5]]]),
   JsonLine([type |-> "upsert", event |-> [eventId |-> "e2", timestampMs |-> 400000, cost |-> [totalCents |-> 7]]]),
   GarbageLine, BlankLine}

ReadSnaps ==
  {NoSnap, GarbageSnap, ObjectSnap, ArraySnap(<<>>),
   ArraySnap(<<[eventId |-> "e1", timestampMs |-> 100000, cost |-> [totalCents |-> 5]]>>)}

InitRead ==
  /\ scope = {"events"}
  /\ now = StartMs
  /\ \E ls \in SeqsUpTo(ReadLines, MaxLines), ex \in BOOLEAN, op \in BOOLEAN, sn \in ReadSnaps :
       /\ ex \/ ls = <<>>
       /\ op => (ls # <<>> /\ ls[Len(ls)] = GarbageLine)
       /\ log = [k \in Kinds |-> IF k = "events" THEN [exists |-> ex, lines |-> ls, open |-> op] ELSE NoLog]
       /\ snap = [k \in Kinds |-> IF k = "events" THEN sn ELSE NoSnap]
  /\ lock = [k \in Kinds |-> NoLock]
  /\ derived = NoDerived
  /\ hist = [k \in Kinds |-> <<>>]
  /\ quiet = [k \in Kinds |-> FALSE]
  /\ InitProcs /\ InitSync /\ InitPure /\ InitNoTracker /\ InitAux

\* JsonlStorageDriver.readAll
readAll(kind) ==
  /\ kind \in scope
  /\ ~readOut.called
  /\ readOut' = [called |-> TRUE, value |-> readJsonl(kind)]
  /\ UNCHANGED <<scope, now, attrIn, attrOut, attrActive, repoActive>> /\ UNCHANGED trackerVars /\ UNCHANGED auxVars
  /\ UNCHANGED storeVars /\ UNCHANGED procVars /\ UNCHANGED ghostVars /\ UNCHANGED syncVars

NextRead == \E k \in Kinds : readAll(k)

SpecRead == InitRead /\ [][NextRead]_vars

\* The well-formed records of a log file, in file order
WellFormedRecords(l) ==
  LET ok == SelectSeq(l.lines, LAMBDA x : Has(x, "json"))
  IN [i \in DOMAIN ok |-> ok[i].json]

HasBadLine(l) == \E i \in DOMAIN l.lines : Has(l.lines[i], "garbage")

----------------------------------------------------------------------------
(* attributeEvent applied to an event and the sessions handed to it *)

AttrEvents == {[eventId |-> "e1", timestampMs |-> 1000, cost |-> [totalCents |-> 5]]}

\* ProjectSession values: open ones in every focus and idle state, and
\* focused ones that ended before the event, end at the event, ended at
\* instant 0, or start after the event
AttrSessions ==
  [projectKey : {"p1", "p2"}, startMs : {0}, focused : BOOLEAN, idle : BOOLEAN]
  \cup {[projectKey |-> k, startMs |-> w[1], endMs |-> w[2], focused |-> TRUE, idle |-> FALSE] :
          k \in {"p1", "p2"}, w \in {<<0, 500>>, <<500, 1000>>, <<0, 0>>}}
  \cup {[projectKey |-> k, startMs |-> 2000, focused |-> TRUE, idle |-> FALSE] :
          k \in {"p1", "p2"}}

\* The sessions of the list as the trackers stored them: one create record
\* each, the i-th under the id s<i>
StoredSessions(ss) ==
  [i \in DOMAIN ss |->
     [type |-> "create",
      session |-> Spread(ss[i], [id |-> "s" \o ToString(i), ideInstanceId |-> "i" \o ToString(i)])]]

InitAttr ==
  /\ scope = {}
  /\ now = StartMs
  /\ \E e \in AttrEvents, ss \in SeqsUpTo(AttrSessions, MaxSessions) :
       /\ attrIn = [called |-> FALSE, event |-> e, sessions |-> ss]
       /\ log = [k \in Kinds |->
                   IF k = "sessions" /\ ss # <<>>
                     THEN [exists |-> TRUE,
                           lines |-> [i \in DOMAIN ss |-> JsonLine(StoredSessions(ss)[i])],
                           open |-> FALSE]
                     ELSE NoLog]
       /\ hist = [k \in Kinds |-> IF k = "sessions" THEN StoredSessions(ss) ELSE <<>>]
  /\ snap = [k \in Kinds |-> NoSnap]
  /\ lock = [k \in Kinds |-> NoLock]
  /\ derived = NoDerived
  /\ quiet = [k \in Kinds |-> FALSE]
  /\ InitProcs /\ InitSync /\ InitNoTracker /\ InitAux
  /\ attrOut = createUnattributedResult([eventId |-> "", timestampMs |-> 0], "")
  /\ attrActive = <<>>
  /\ repoActive = [called |-> FALSE, value |-> <<>>]
  /\ readOut = [called |-> FALSE, value |-> <<>>]

\* AttributionEngine.attributeEvent
Attribute ==
  /\ ~attrIn.called
  /\ attrIn' = [attrIn EXCEPT !.called = TRUE]
  /\ attrActive' = findActiveSessions(attrIn.event.timestampMs, attrIn.sessions)
  /\ attrOut' = attributeEvent(attrIn.event, attrIn.sessions)
  /\ UNCHANGED <<scope, now, repoActive, readOut>> /\ UNCHANGED trackerVars /\ UNCHANGED auxVars
  /\ UNCHANGED storeVars /\ UNCHANGED procVars /\ UNCHANGED ghostVars /\ UNCHANGED syncVars

\* SessionRepository.getActiveSessions(event.timestampMs) over the store
ActiveSessionsRead ==
  /\ ~repoActive.called
  /\ repoActive' = [called |-> TRUE, value |-> getActiveSessions(attrIn.event.timestampMs)]
  /\ UNCHANGED <<scope, now, attrIn, attrOut, attrActive, readOut>> /\ UNCHANGED trackerVars /\ UNCHANGED auxVars
  /\ UNCHANGED storeVars /\ UNCHANGED procVars /\ UNCHANGED ghostVars /\ UNCHANGED syncVars

NextAttr == Attribute \/ ActiveSessionsRead

SpecAttr == InitAttr /\ [][NextAttr]_vars

\* The positions of the sessions whose window holds the instant t
ActiveAt(ss, t) ==
  {i \in DOMAIN ss : ss[i].startMs <= t /\ (Has(ss[i], "endMs") => t <= ss[i].endMs)}

FocusedNonIdle(ss, t) == {i \in ActiveAt(ss, t) : ss[i].focused /\ ~ss[i].idle}

\* C10: when exactly one of the sessions active at the event's time is focused
\* and not idle, the event is attributed to that session's project with
\* confidence 1.0 and no conflicts, whatever other active sessions there are.
C10_SoleFocusedNonIdleWins ==
  attrIn.called =>
    \A i \in FocusedNonIdle(attrIn.sessions, attrIn.event.timestampMs) :
      FocusedNonIdle(attrIn.sessions, attrIn.event.timestampMs) = {i} =>
        /\ attrOut.attribution.projectKey = attrIn.sessions[i].projectKey
        /\ attrOut.attribution.confidence = Frac(1, 1)
        /\ attrOut.conflicts = <<>>

ActiveFocused(ss, t) == {i \in ActiveAt(ss, t) : ss[i].focused}

\* The elements of ss at the positions in I, in the order of ss
AtPositions(ss, I) ==
  LET nth(k) == CHOOSE i \in I : Cardinality({j \in I : j < i}) = k - 1
  IN [k \in 1..Cardinality(I) |-> ss[nth(k)]]

\* C11: when none of the sessions handed over is active at the event's time
\* (an empty list included), the event comes back unattributed with
\* confidence 0 and no conflicts.
C11_NoActiveSessionUnattributed ==
  (attrIn.called /\ ActiveAt(attrIn.sessions, attrIn.event.timestampMs) = {}) =>
    /\ attrOut.attribution.projectKey = "unattributed"
    /\ attrOut.attribution.confidence = Frac(0, 1)
    /\ attrOut.confidence = Frac(0, 1)
    /\ attrOut.conflicts = <<>>

\* No rung with a single candidate matches: not one focused non-idle, not one
\* focused, not one active session
NoSingleRung(ss, t) ==
  /\ Cardinality(FocusedNonIdle(ss, t)) # 1
  /\ Cardinality(ActiveFocused(ss, t)) # 1
  /\ Cardinality(ActiveAt(ss, t)) # 1

\* The candidates of the conflict rungs: the focused active sessions when
\* there are several, all active sessions when none is focused
ConflictSet(ss, t) ==
  IF Cardinality(ActiveFocused(ss, t)) > 1 THEN ActiveFocused(ss, t) ELSE ActiveAt(ss, t)

\* C12: when no earlier rung matches and several active sessions are focused,
\* the event goes to the first focused one in the order handed over, with
\* confidence 0.5 / their number and all of them as conflicts; with several
\* active sessions and none focused, the same over the active sessions.
C12_ConflictRungs ==
  LET ss == attrIn.sessions
      t == attrIn.event.timestampMs
      c == AtPositions(ss, ConflictSet(ss, t))
  IN (attrIn.called /\ NoSingleRung(ss, t) /\ Cardinality(ActiveAt(ss, t)) > 1) =>
       /\ attrOut.attribution.projectKey = c[1].projectKey
       /\ attrOut.attribution.confidence = Frac(1, 2 * Len(c))
       /\ attrOut.confidence = Frac(1, 2 * Len(c))
       /\ attrOut.conflicts = c

\* C13: past the 1.0 rung, exactly one focused active session gets the event
\* with confidence 0.9; failing that, exactly one active session gets it with
\* confidence 0.7; no conflicts either way.
C13_SingleCandidateRungs ==
  LET ss == attrIn.sessions
      t == attrIn.event.timestampMs
      one(I) == ss[CHOOSE i \in I : TRUE]
  IN (attrIn.called /\ Cardinality(FocusedNonIdle(ss, t)) # 1) =>
       /\ Cardinality(ActiveFocused(ss, t)) = 1 =>
            /\ attrOut.attribution.projectKey = one(ActiveFocused(ss, t)).projectKey
            /\ attrOut.attribution.confidence = Frac(9, 10)
            /\ attrOut.conflicts = <<>>
       /\ (Cardinality(ActiveFocused(ss, t)) # 1 /\ Cardinality(ActiveAt(ss, t)) = 1) =>
            /\ attrOut.attribution.projectKey = one(ActiveAt(ss, t)).projectKey
            /\ attrOut.attribution.confidence = Frac(7, 10)
            /\ attrOut.conflicts = <<>>

\* C14: a session is among the active ones for t exactly when startMs <= t and
\* endMs is absent or t <= endMs, in what findActiveSessions hands to
\* attributeEvent and in what SessionRepository.getActiveSessions returns.
C14_ActiveExactlyInWindow ==
  LET ss == attrIn.sessions
      t == attrIn.event.timestampMs
  IN /\ attrIn.called => attrActive = AtPositions(ss, ActiveAt(ss, t))
     /\ repoActive.called =>
          {s.id : s \in Range(repoActive.value)}
            = {StoredSessions(ss)[i].session.id : i \in ActiveAt(ss, t)}

----------------------------------------------------------------------------
(* ProjectSessionTracker: one IDE window segmenting its time into sessions *)

MaxUuids == 2          \* sessions one tracker creates in a run
MaxSignals == 3        \* signals a started tracker handles before dispose
MaxElapses == 1        \* times the clock is advanced between signals
MaxDriftMs == 1        \* milliseconds that pass inside one handler

POLL_MS == 5000
MIN_IDLE_MS == 30000
DEFAULT_IDLE_MS == 120000

\* SessionTrackerOptions: idleMs left out, or given
TrackerOpts == {[none |-> TRUE], [idleMs |-> 1000]}

\* vscode.workspace.workspaceFolders, as fsPaths
FolderChoices == {<<>>, <<"/a">>, <<"/b">>, <<"/a", "/b">>}

\* computeProjectIdentity: the key is a digest of path and git remote; the
\* digest is written as the text it is taken of, workspaces have no remote
computeProjectIdentity(workspacePath) ==
  [projectKey |-> "sha256(" \o workspacePath \o "::)",
   displayName |-> workspacePath,
   workspacePath |-> workspacePath]

\* The successive values Date.now() returns inside one handler that is
\* entered at t: the one endCurrentSession reads before its write, the one
\* the new session's startMs gets after it (the project row, written in
\* between, is given the later one).
ClockReads(t) ==
  {c \in [end : t..(t + MaxDriftMs), start : t..(t + MaxDriftMs)] : c.end <= c.start}

\* Which appendFileSync calls of a handler succeed.
WriteOutcomes == [end : BOOLEAN, project : BOOLEAN, create : BOOLEAN, flags : BOOLEAN]

\* The outcomes of the writes a handler can reach (the others do not happen)
OutcomesOf(writes) ==
  {ok \in WriteOutcomes : \A f \in {"end", "project", "create", "flags"} \ writes : ok[f]}

\* What a handler works on: the tracker's fields, both log files, the
\* records appended, the uuids used, whether it threw.
World ==
  [t |-> trk, sessions |-> log["sessions"], projects |-> log["projects"],
   hs |-> hist["sessions"], hp |-> hist["projects"], uuids |-> env.uuids, thrown |-> FALSE]

\* driver.append from a repository: the line is written, or appendFileSync throws
Written(l, record, ok) == IF ok THEN appendText(l, JsonLine(record)) ELSE l

Recorded(h, record, ok) == IF ok THEN Append(h, record) ELSE h

\* setActivity
setActivity(w, t) == [w EXCEPT !.t.lastActivityAt = t, !.t.idle = FALSE]

endCurrentSessionNoCatch(w, c, ok) ==
  IF w.t.currentSessionId = Null THEN w
  ELSE IF ~ok.end THEN [w EXCEPT !.thrown = TRUE]
  ELSE LET r == [type |-> "update", sessionId |-> w.t.currentSessionId, patch |-> [endMs |-> c.end]]
       IN [w EXCEPT !.sessions = Written(@, r, TRUE), !.hs = Recorded(@, r, TRUE),
                    !.t.currentSessionId = Null, !.t.currentProjectKey = Null,
                    !.t.currentWorkspaceFolders = <<>>, !.t.currentWorkspacePath = Null]

\* endCurrentSession: the close is best-effort, the fields are cleared anyway
endCurrentSession(w, c, ok) ==
  IF w.t.currentSessionId = Null THEN w
  ELSE LET r == [type |-> "update", sessionId |-> w.t.currentSessionId, patch |-> [endMs |-> c.end]]
       IN [w EXCEPT !.sessions = Written(@, r, ok.end), !.hs = Recorded(@, r, ok.end),
                    !.t.currentSessionId = Null, !.t.currentProjectKey = Null,
                    !.t.currentWorkspaceFolders = <<>>, !.t.currentWorkspacePath = Null]

\* updateSessionFlags: best-effort
updateSessionFlags(w, ok) ==
  IF w.t.currentSessionId = Null THEN w
  ELSE LET r == [type |-> "update", sessionId |-> w.t.currentSessionId,
                 patch |-> [focused |-> w.t.focused, idle |-> w.t.idle]]
       IN [w EXCEPT !.sessions = Written(@, r, ok.flags), !.hs = Recorded(@, r, ok.flags)]

\* The part ensureSessionForCurrentWorkspace and rotateSession share: the
\* session object, sessions.create, the four fields.  A failing create throws.
createSession(w, c, ok, projectKey, folders, workspacePath) ==
  LET session == [id |-> "s" \o ToString(w.uuids + 1),
                  projectKey |-> projectKey,
                  workspaceFolders |-> folders,
                  startMs |-> c.start,
                  focused |-> w.t.focused,
                  idle |-> w.t.idle,
                  ideInstanceId |-> w.t.ideInstanceId,
                  ideType |-> w.t.ideType]
      r == [type |-> "create", session |-> session]
  IN IF ~ok.create THEN [w EXCEPT !.uuids = @ + 1, !.thrown = TRUE]
     ELSE [w EXCEPT !.uuids = @ + 1,
                    !.sessions = Written(@, r, TRUE), !.hs = Recorded(@, r, TRUE),
                    !.t.currentSessionId = session.id,
                    !.t.currentProjectKey = projectKey,
                    !.t.currentWorkspaceFolders = folders,
                    !.t.currentWorkspacePath = workspacePath]

\* ensureSessionForCurrentWorkspace(forceNew)
ensureSessionForCurrentWorkspace(w, c, ok, folders, forceNew) ==
  LET primary == IF folders = <<>> THEN Null ELSE folders[1]
      identity == computeProjectIdentity(primary)
      project == [projectKey |-> identity.projectKey, displayName |-> identity.displayName,
                  workspacePath |-> identity.workspacePath,
                  createdAt |-> c.start, lastActiveAt |-> c.start]
      r == [type |-> "upsert", project |-> project]
      w1 == endCurrentSession(w, c, ok)
  IN IF primary = Null THEN w
     ELSE IF ~forceNew /\ w.t.currentProjectKey = identity.projectKey /\ w.t.currentSessionId # Null
       THEN w
     ELSE IF ~ok.project THEN [w1 EXCEPT !.thrown = TRUE]
     ELSE createSession([w1 EXCEPT !.projects = Written(@, r, TRUE), !.hp = Recorded(@, r, TRUE)],
                        c, ok, identity.projectKey, folders, identity.workspacePath)

\* rotateSession
rotateSession(w, c, ok, folders) ==
  IF w.t.currentProjectKey = Null \/ w.t.currentSessionId = Null \/ w.t.currentWorkspacePath = Null
    THEN ensureSessionForCurrentWorkspace(w, c, ok, folders, TRUE)
  ELSE LET projectKey == w.t.currentProjectKey
           workspacePath == w.t.currentWorkspacePath
           prevFolders == w.t.currentWorkspaceFolders
       IN createSession(endCurrentSession(w, c, ok), c, ok, projectKey,
                        IF prevFolders # <<>> THEN prevFolders ELSE folders, workspacePath)

\* The state a handler leaves: the files, the fields, the clock where the
\* handler's last reading of it left it.
Handled(w, c, e, sig) ==
  /\ trk' = w.t
  /\ env' = [e EXCEPT !.uuids = w.uuids, !.signals = @ + 1]
  /\ signal' = sig
  /\ log' = [log EXCEPT !["sessions"] = w.sessions, !["projects"] = w.projects]
  /\ hist' = [hist EXCEPT !["sessions"] = w.hs, !["projects"] = w.hp]
  /\ now' = c.start
  /\ UNCHANGED <<scope, snap, lock, derived, quiet>>
  /\ UNCHANGED procVars /\ UNCHANGED syncVars /\ UNCHANGED pureVars /\ UNCHANGED auxVars

\* What the signal finds when its handler is entered.
SignalAt(op, rotated) ==
  [op |-> op, at |-> now, open |-> trk.currentSessionId,
   projectKey |-> trk.currentProjectKey, rotated |-> rotated]

\* The run is kept finite: a handler runs while signals and uuids are left.
Room == env.signals < MaxSignals /\ env.uuids < MaxUuids

\* new ProjectSessionTracker(opts).start(); a throw inside start() leaves
\* no listener and no timer
Start ==
  /\ ~trk.started
  /\ \E c \in ClockReads(now), ok \in OutcomesOf({"project", "create"}) :
       LET w0 == [World EXCEPT !.t.focused = env.focused, !.t.started = TRUE]
           w1 == ensureSessionForCurrentWorkspace(setActivity(w0, now), c, ok, env.folders, FALSE)
           w2 == IF w1.thrown THEN w1 ELSE [w1 EXCEPT !.t.listening = TRUE, !.t.timer = TRUE]
       IN Handled(w2, c, [env EXCEPT !.timerAt = c.start], SignalAt("start", FALSE))

\* onDidChangeWindowState
FocusSignal ==
  /\ trk.listening /\ Room
  /\ \E f \in BOOLEAN, c \in ClockReads(now), ok \in OutcomesOf({"end", "project", "create", "flags"}) :
       LET prevFocused == trk.focused
           w0 == setActivity([World EXCEPT !.t.focused = f], now)
           w1 == IF prevFocused # f THEN rotateSession(w0, c, ok, env.folders)
                 ELSE updateSessionFlags(w0, ok)
       IN Handled(w1, c, [env EXCEPT !.focused = f], SignalAt("focus", prevFocused # f))

\* onDidChangeWorkspaceFolders
WorkspaceSignal ==
  /\ trk.listening /\ Room
  /\ \E folders \in FolderChoices, c \in ClockReads(now), ok \in OutcomesOf({"end", "project", "create"}) :
       /\ folders # env.folders
       /\ Handled(ensureSessionForCurrentWorkspace(World, c, ok, folders, TRUE), c,
                  [env EXCEPT !.folders = folders], SignalAt("workspace", FALSE))

\* onDidChangeTextDocument, onDidChangeActiveTextEditor (no session is
\* created, so no uuid is needed)
ActivitySignal ==
  /\ trk.listening /\ env.signals < MaxSignals
  /\ \E c \in ClockReads(now), ok \in OutcomesOf({"flags"}) :
       Handled(updateSessionFlags(setActivity(World, now), ok), c, env, SignalAt("activity", FALSE))

\* The setInterval callback, POLL_MS after the timer was set or last fired
IdlePoll ==
  /\ trk.timer /\ Room
  /\ now - env.timerAt >= POLL_MS
  /\ \E c \in ClockReads(now), ok \in OutcomesOf({"end", "project", "create"}) :
       LET nextIdle == now - trk.lastActivityAt >= trk.idleMs
           w0 == [World EXCEPT !.t.idle = nextIdle]
           w1 == IF nextIdle # trk.idle THEN rotateSession(w0, c, ok, env.folders) ELSE World
       IN Handled(w1, c, [env EXCEPT !.timerAt = now], SignalAt("poll", nextIdle # trk.idle))

\* dispose
Dispose ==
  /\ trk.started /\ ~trk.disposed
  /\ \E c \in ClockReads(now), ok \in OutcomesOf({"end"}) :
       LET w0 == [World EXCEPT !.t.timer = FALSE, !.t.disposed = TRUE]
           w1 == [endCurrentSession(w0, c, ok) EXCEPT !.t.listening = FALSE]
       IN Handled(w1, c, env, SignalAt("dispose", FALSE))

\* Time passes between two signals: a millisecond, a poll interval, the idle
\* threshold.
Elapse ==
  /\ trk.started /\ ~trk.disposed
  /\ env.elapses < MaxElapses
  /\ \E d \in {1, POLL_MS, trk.idleMs} : now' = now + d
  /\ env' = [env EXCEPT !.elapses = @ + 1]
  /\ UNCHANGED <<scope, trk, signal>>
  /\ UNCHANGED storeVars /\ UNCHANGED procVars /\ UNCHANGED ghostVars
  /\ UNCHANGED syncVars /\ UNCHANGED pureVars /\ UNCHANGED auxVars

\* The constructor has run: a fresh uuid for the window, the idle threshold
\* from the options, lastActivityAt the time of construction.
InitTracker ==
  /\ scope = {}
  /\ InitStore /\ InitProcs /\ InitSync /\ InitPure /\ InitAux
  /\ \E opts \in TrackerOpts :
       trk = [ideInstanceId |-> "ide1", ideType |-> "vscode",
              idleMs |-> Max(MIN_IDLE_MS, FieldOr(opts, "idleMs", DEFAULT_IDLE_MS)),
              currentSessionId |-> Null, currentProjectKey |-> Null,
              currentWorkspaceFolders |-> <<>>, currentWorkspacePath |-> Null,
              idle |-> FALSE, focused |-> TRUE, lastActivityAt |-> StartMs,
              timer |-> FALSE, listening |-> FALSE, started |-> FALSE, disposed |-> FALSE]
  /\ \E folders \in FolderChoices, f \in BOOLEAN :
       env = [folders |-> folders, focused |-> f, uuids |-> 0, timerAt |-> 0, elapses |-> 0, signals |-> 0]
  /\ signal = NoSignal

NextTracker ==
  \/ Start \/ FocusSignal \/ WorkspaceSignal \/ ActivitySignal
  \/ IdlePoll \/ Dispose \/ Elapse

SpecTracker == InitTracker /\ [][NextTracker]_vars

----------------------------------------------------------------------------
(* The sessions a tracker leaves in the store *)

\* SessionRepository.getAll().find(s => s.id === id)
HasSession(id) == \E s \in Range(getAll("sessions")) : s.id = id

SessionById(id) == CHOOSE s \in Range(getAll("sessions")) : s.id = id

\* C15: when a focus change or an idle toggle is handled at time t while a
\* session is open, that session is closed with endMs = t and a new session
\* is open with startMs = t, the same projectKey, the same ideInstanceId and
\* the tracker's new focused and idle values.
C15_RotationBoundary ==
  (signal.rotated /\ signal.open # Null) =>
    /\ HasSession(signal.open)
    /\ Has(SessionById(signal.open), "endMs")
    /\ SessionById(signal.open).endMs = signal.at
    /\ trk.currentSessionId # Null
    /\ trk.currentSessionId # signal.open
    /\ HasSession(trk.currentSessionId)
    /\ ~Has(SessionById(trk.currentSessionId), "endMs")
    /\ SessionById(trk.currentSessionId).startMs = signal.at
    /\ SessionById(trk.currentSessionId).projectKey = signal.projectKey
    /\ SessionById(trk.currentSessionId).ideInstanceId = SessionById(signal.open).ideInstanceId
    /\ SessionById(trk.currentSessionId).focused = trk.focused
    /\ SessionById(trk.currentSessionId).idle = trk.idle

\* C16: in the store, at most one session of an ideInstanceId has no endMs,
\* whatever signals the tracker handled and whichever close writes failed.
C16_AtMostOneOpenPerInstance ==
  \A s1, s2 \in Range(getAll("sessions")) :
    (s1.ideInstanceId = s2.ideInstanceId /\ ~Has(s1, "endMs") /\ ~Has(s2, "endMs")) => s1 = s2

\* C17: every closed session in the store has startMs < endMs.
C17_ClosedStartBeforeEnd ==
  \A s \in Range(getAll("sessions")) : Has(s, "endMs") => s.startMs < s.endMs

----------------------------------------------------------------------------
(* The attributions a reader finds in the store *)

\* a is what the last record appended for its eventId holds
IsLastAppended(a) ==
  \E k \in DOMAIN hist["attributions"] :
    /\ hist["attributions"][k].attribution = a
    /\ \A k2 \in DOMAIN hist["attributions"] :
         k2 > k => hist["attributions"][k2].attribution.eventId # a.eventId

----------------------------------------------------------------------------
(* The compaction lock *)

\* The lock of the kind p compacts is another process's, and fresh.
HeldByOtherFresh(p) ==
  /\ lock[pkind[p]].st = "held"
  /\ lock[pkind[p]].pid # p
  /\ now - lock[pkind[p]].mtimeMs <= LOCK_STALE_MS

\* C19: while the lock of the kind is held by another process and not stale,
\* a compact(kind) call only looks at the lock and returns: no error is
\* raised, and log, snapshot, derived index and lock file stay as they are.
C19_HeldLockSkips ==
  [][\A p \in Procs :
       (pc[p] \in {"check", "open"} /\ pc'[p] # pc[p] /\ HeldByOtherFresh(p)) =>
         /\ UNCHANGED storeVars
         /\ pc[p] = "check" => pc'[p] = "open"
         /\ pc[p] = "open" => (pc'[p] = "idle" /\ pret'[p] = "skipped")
         /\ ~perr'[p] /\ ~pheld'[p]]_vars

\* A compact call was skipped and the lock it met is still there, fresh, in
\* the hands of a process that is compacting.
C19_Witness ==
  \E p \in Procs :
    /\ pc[p] = "idle" /\ pret[p] = "skipped" /\ ~pstale[p]
    /\ HeldByOtherFresh(p)
    /\ lock[pkind[p]].pid \in Procs
    /\ pc[lock[pkind[p]].pid] \notin {"idle", "check", "unlink", "open"}

----------------------------------------------------------------------------
(* withBackoff: a bounded retry of one asynchronous operation *)

MaxAttemptsOpt == 3    \* largest maxAttempts a caller passes

DEFAULT_MAX_ATTEMPTS == 4
DEFAULT_BASE_DELAY_MS == 500
DEFAULT_MAX_DELAY_MS == 10000
JITTER_MS == 250

Min(a, b) == IF a <= b THEN a ELSE b

\* BackoffOptions: each field given or left out
BackoffOpts ==
  {[none |-> TRUE], [baseDelayMs |-> 4000, maxDelayMs |-> 6000]}
    \cup {[maxAttempts |-> n] : n \in 0..MaxAttemptsOpt}

\* What fn() rejects with
BackoffErrors == {"rate-limited", "network"}

\* opts.getRetryAfterMs?.(e): no hint, or the milliseconds the source asks for
RetryAfterOf(e) ==
  IF e = "rate-limited" THEN {Undefined, [ms |-> 1000], [ms |-> 30000]} ELSE {Undefined}

\* Math.floor(Math.random() * 250): the ends of its range
Jitters == {0, JITTER_MS - 1}

\* delay = min(maxDelayMs, (retryAfter ?? exp) + jitter)
backoffDelay(opts, attempt, retryAfter, jitter) ==
  LET baseDelayMs == FieldOr(opts, "baseDelayMs", DEFAULT_BASE_DELAY_MS)
      maxDelayMs == FieldOr(opts, "maxDelayMs", DEFAULT_MAX_DELAY_MS)
      exp == Min(maxDelayMs, baseDelayMs * 2^(attempt - 1))
  IN Min(maxDelayMs, (IF retryAfter = Undefined THEN exp ELSE retryAfter.ms) + jitter)

BackoffStep(b) ==
  /\ bk' = b
  /\ UNCHANGED <<scope, now, ilv, fetched, ov, disk>>
  /\ UNCHANGED storeVars /\ UNCHANGED procVars /\ UNCHANGED ghostVars
  /\ UNCHANGED syncVars /\ UNCHANGED pureVars /\ UNCHANGED trackerVars

\* withBackoff(fn, opts) is called: attempt = 1, lastErr undefined; the loop
\* is not entered when maxAttempts < 1
BackoffCall ==
  /\ bk.pc = "none"
  /\ \E opts \in BackoffOpts :
       BackoffStep([bk EXCEPT !.opts = opts, !.attempt = 1,
                              !.pc = IF 1 <= FieldOr(opts, "maxAttempts", DEFAULT_MAX_ATTEMPTS)
                                       THEN "call" ELSE "threw",
                              !.thrown = "undefined"])

BackoffAttemptKeepsFirstError ==
  /\ bk.pc = "call"
  /\ \/ BackoffStep([bk EXCEPT !.calls = @ + 1, !.pc = "returned",
                               !.returned = "result" \o ToString(bk.calls + 1)])
     \/ \E e \in BackoffErrors, j \in Jitters :
          \E ra \in RetryAfterOf(e) :
            LET first == IF bk.errors = <<>> THEN e ELSE bk.errors[1]
            IN IF bk.attempt = FieldOr(bk.opts, "maxAttempts", DEFAULT_MAX_ATTEMPTS)
                 THEN BackoffStep([bk EXCEPT !.calls = @ + 1, !.errors = Append(@, e),
                                             !.pc = "threw", !.thrown = first])
                 ELSE BackoffStep([bk EXCEPT !.calls = @ + 1, !.errors = Append(@, e),
                                             !.delays = Append(@, backoffDelay(bk.opts, bk.attempt, ra, j)),
                                             !.hints = Append(@, ra),
                                             !.pc = "sleep"])

\* One turn of the loop: await fn() resolves and withBackoff returns it, or
\* it rejects: lastErr = e, break on the last attempt (throw lastErr), else
\* the delay is computed and slept
BackoffAttempt ==
  /\ bk.pc = "call"
  /\ \/ BackoffStep([bk EXCEPT !.calls = @ + 1, !.pc = "returned",
                               !.returned = "result" \o ToString(bk.calls + 1)])
     \/ \E e \in BackoffErrors, j \in Jitters :
          \E ra \in RetryAfterOf(e) :
            IF bk.attempt = FieldOr(bk.opts, "maxAttempts", DEFAULT_MAX_ATTEMPTS)
              THEN BackoffStep([bk EXCEPT !.calls = @ + 1, !.errors = Append(@, e),
                                          !.pc = "threw", !.thrown = e])
              ELSE BackoffStep([bk EXCEPT !.calls = @ + 1, !.errors = Append(@, e),
                                          !.delays = Append(@, backoffDelay(bk.opts, bk.attempt, ra, j)),
                                          !.hints = Append(@, ra),
                                          !.pc = "sleep"])

\* The timer of sleep(delay) fires: attempt++, and the loop test
BackoffWake ==
  /\ bk.pc = "sleep"
  /\ BackoffStep([bk EXCEPT !.attempt = @ + 1,
                            !.pc = IF bk.attempt + 1 <= FieldOr(bk.opts, "maxAttempts", DEFAULT_MAX_ATTEMPTS)
                                     THEN "call" ELSE "threw",
                            !.thrown = bk.errors[Len(bk.errors)]])

InitBackoff ==
  /\ scope = {}
  /\ InitStore /\ InitProcs /\ InitSync /\ InitPure /\ InitNoTracker /\ InitAux

NextBackoff == BackoffCall \/ BackoffAttempt \/ BackoffWake

\* await fn() settles and the timer of sleep() fires
SpecBackoff == InitBackoff /\ [][NextBackoff]_vars /\ WF_vars(NextBackoff)

BackoffDone == bk.pc \in {"returned", "threw"}

BackoffLimit == IF Has(bk.opts, "maxAttempts") THEN bk.opts.maxAttempts ELSE 4

\* C21: withBackoff ends; it has called fn at most maxAttempts times (4 by
\* default); when it returns, it returns what the one successful call gave
\* and that call was the last; when every call failed it throws the error of
\* the last call.
C21_BackoffBoundedRetry ==
  /\ [](/\ bk.pc # "none" => bk.calls <= Max(BackoffLimit, 0)
        /\ bk.pc = "returned" =>
             bk.returned = "result" \o ToString(bk.calls) /\ Len(bk.errors) = bk.calls - 1
        /\ (bk.pc = "threw" /\ bk.calls > 0) =>
             /\ Len(bk.errors) = bk.calls /\ bk.calls = BackoffLimit
             /\ bk.thrown = bk.errors[bk.calls])
  /\ <>BackoffDone

\* Every attempt of a call with three attempts failed, with different errors.
C21_Witness ==
  /\ bk.pc = "threw" /\ bk.calls = 3
  /\ bk.errors[1] # bk.errors[3]
  /\ bk.thrown = bk.errors[3]

----------------------------------------------------------------------------
(* AnalyticsRepository.getCostTotalsByProject *)

\* The rows both paths end with: one per projectKey of the aggregate.  The
\* final sort by totalCents orders the same rows, it is left out.
CostRows(agg) ==
  {[projectKey |-> agg[i].k,
    totalCents |-> agg[i].v.totalCents,
    eventCount |-> agg[i].v.eventCount,
    avgConfidence |-> IF agg[i].v.eventCount # 0
                        THEN Frac(agg[i].v.confSum.num, agg[i].v.confSum.den * agg[i].v.eventCount)
                        ELSE Frac(0, 1)] : i \in DOMAIN agg}

\* EventRepository.getByTimeRange, before its sort
getByTimeRange(startMs, endMs) ==
  SelectSeq(getAll("events"), LAMBDA e : e.timestampMs >= startMs /\ e.timestampMs <= endMs)

\* The fallback loop over the events of the range
RECURSIVE ScanFold(_, _, _)
ScanFold(events, byEvent, agg) ==
  IF events = <<>> THEN agg
  ELSE LET e == Head(events)
           hasA == MapHas(byEvent, e.eventId)
           key == IF hasA THEN MapGet(byEvent, e.eventId).projectKey ELSE "unattributed"
           prev == IF MapHas(agg, key) THEN MapGet(agg, key)
                   ELSE [totalCents |-> 0, eventCount |-> 0, confSum |-> Frac(0, 1)]
       IN ScanFold(Tail(events), byEvent,
            MapSet(agg, key, [totalCents |-> prev.totalCents + e.cost.totalCents,
                              eventCount |-> prev.eventCount + 1,
                              confSum |-> FracAdd(prev.confSum,
                                                  IF hasA THEN MapGet(byEvent, e.eventId).confidence
                                                  ELSE Frac(0, 1))]))

\* getCostTotalsByProject when no derived index can be read
costTotalsByScan(startMs, endMs) ==
  CostRows(ScanFold(getByTimeRange(startMs, endMs),
                    AttribByEvent(getAll("attributions"), <<>>), <<>>))

\* aggregateFromDerivedByDay: the entries of the days startDay..endDay, summed
\* per project
aggregateFromDerivedByDay(entries, startMs, endMs) ==
  LET inRange == {x \in entries : DayOf(startMs) <= x.day /\ x.day <= DayOf(endMs)}
      RECURSIVE Sum(_, _)
      Sum(xs, acc) ==
        IF xs = {} THEN acc
        ELSE LET x == CHOOSE y \in xs : TRUE
             IN Sum(xs \ {x},
                    [totalCents |-> acc.totalCents + x.totalCents,
                     eventCount |-> acc.eventCount + x.eventCount,
                     confSum |-> FracAdd(acc.confSum, x.confSum)])
      total(pk) == Sum({x \in inRange : x.projectKey = pk},
                       [totalCents |-> 0, eventCount |-> 0, confSum |-> Frac(0, 1)])
  IN {[projectKey |-> pk,
       totalCents |-> total(pk).totalCents,
       eventCount |-> total(pk).eventCount,
       avgConfidence |-> IF total(pk).eventCount # 0
                           THEN Frac(total(pk).confSum.num, total(pk).confSum.den * total(pk).eventCount)
                           ELSE Frac(0, 1)] : pk \in {x.projectKey : x \in inRange}}

\* getCostTotalsByProject
getCostTotalsByProject(startMs, endMs) ==
  IF derived.st = "index"
    THEN aggregateFromDerivedByDay(derived.byProjectByDay, startMs, endMs)
    ELSE costTotalsByScan(startMs, endMs)

\* The query ranges: the whole first UTC day, and a part of it
CostRanges == {<<0, MS_PER_DAY - 1>>, <<0, 200000>>}

\* C22: getCostTotalsByProject returns the same rows from the derived index
\* as it returns, over the same store, when the index file is absent.
C22_DerivedEqualsScan ==
  \A r \in CostRanges : getCostTotalsByProject(r[1], r[2]) = costTotalsByScan(r[1], r[2])

----------------------------------------------------------------------------
(* The confidence of an attribution *)

InUnitInterval(c) == ~FracLess(c, Frac(0, 1)) /\ ~FracLess(Frac(1, 1), c)

\* C23: the confidence attributeEvent returns, in the result and in its
\* attribution record, is within [0, 1]; a result with conflicts has a
\* confidence below 0.7.
C23_ConfidenceInRange ==
  attrIn.called =>
    /\ InUnitInterval(attrOut.confidence)
    /\ InUnitInterval(attrOut.attribution.confidence)
    /\ attrOut.conflicts # <<>> =>
         /\ FracLess(attrOut.confidence, Frac(7, 10))
         /\ FracLess(attrOut.attribution.confidence, Frac(7, 10))

\* Three sessions are in conflict over one event.
C23_Witness ==
  /\ attrIn.called
  /\ Len(attrOut.conflicts) = 3
  /\ attrOut.confidence = Frac(1, 6)

----------------------------------------------------------------------------
(* Resolution at read time and at compaction time *)

\* The entities the repository of the kind resolves from what readJsonl
\* returned: getAll, and SyncStateRepository.get of every source
Resolved(kind, records) ==
  IF kind = "sync_state"
    THEN {LastState(records, source, Undefined) : source \in SyncModes}
    ELSE Range(getAllOf(kind, records))

\* C24: when compact(kind) returns and nothing was written to the kind during
\* the call, the repository of the kind resolves the entities it resolved
\* when compact was called.
C24_CompactKeepsResolution ==
  [][\A p \in Procs :
       (CompactReturnsOk(p) /\ ~pre[p].dirty) =>
          Resolved(pkind[p], readJsonlOf(snap'[pkind[p]], log'[pkind[p]]))
            = Resolved(pkind[p], readJsonlOf(pre[p].snap, pre[p].log))]_vars

----------------------------------------------------------------------------
(* Two processes append to one log: the orders their lines can land in *)

MaxOwn == 2    \* records one process appends

\* All logs that hold the lines of a and of b, each in its own order
RECURSIVE Merges(_, _)
Merges(a, b) ==
  IF a = <<>> THEN {b}
  ELSE IF b = <<>> THEN {a}
  ELSE {<<Head(a)>> \o m : m \in Merges(Tail(a), b)}
         \cup {<<Head(b)>> \o m : m \in Merges(a, Tail(b))}

\* What one process can have appended: a session is patched after it was
\* created, by the tracker that created it
OwnAppends(kind) ==
  {a \in SeqsUpTo(StoreRecords(kind), MaxOwn) :
     kind = "sessions" =>
       \A i \in DOMAIN a :
         a[i].type = "update" =>
           \E j \in 1..(i - 1) : a[j].type = "create" /\ a[j].session.id = a[i].sessionId}

\* Session ids are uuids: no two processes create the same session
DisjointCreates(kind, a, b) ==
  kind = "sessions" =>
    \A i \in DOMAIN a, j \in DOMAIN b :
      (a[i].type = "create" /\ b[j].type = "create") => a[i].session.id # b[j].session.id

InitInterleave ==
  /\ scope = {}
  /\ InitStore /\ InitProcs /\ InitSync /\ InitPure /\ InitNoTracker
  /\ bk = NoBackoff
  /\ fetched = <<>>
  /\ ov = NoOverlap
  /\ disk = InitialDisk
  /\ \E kind \in Kinds :
       \E a \in OwnAppends(kind), b \in OwnAppends(kind) :
         \E m \in Merges(a, b) :
           /\ DisjointCreates(kind, a, b)
           /\ ilv = [NoInterleaving EXCEPT !.kind = kind, !.a = a, !.b = b,
                                           !.log1 = a \o b, !.log2 = m]

\* The repository of the kind reads each of the two logs
ResolveBoth ==
  /\ ~ilv.resolved
  /\ ilv' = [ilv EXCEPT !.resolved = TRUE,
                        !.out1 = Resolved(ilv.kind, ilv.log1),
                        !.out2 = Resolved(ilv.kind, ilv.log2)]
  /\ UNCHANGED <<scope, now, bk, fetched, ov, disk>>
  /\ UNCHANGED storeVars /\ UNCHANGED procVars /\ UNCHANGED ghostVars
  /\ UNCHANGED syncVars /\ UNCHANGED pureVars /\ UNCHANGED trackerVars

NextInterleave == ResolveBoth

SpecInterleave == InitInterleave /\ [][NextInterleave]_vars

\* C25: two logs that hold the same records, each process's records in the
\* order it appended them, resolve to the same entities.
C25_InterleavingIndependent ==
  ilv.resolved => ilv.out1 = ilv.out2

----------------------------------------------------------------------------
(* Two runSync executions for one source that overlap: two IDE processes, or a
   manual refresh while the poll timer's sync awaits its fetch *)

MaxOverlapCalls == 2    \* runSync calls of one run slot

\* The appends of the loop over the fetched events, which has no await
RECURSIVE LoopAppends(_, _, _)
LoopAppends(lg, s, events) ==
  IF events = <<>> THEN lg
  ELSE LET e == Head(events)
           activeSessions == getActiveSessionsOf(readJsonlOf(s["sessions"], lg["sessions"]), e.timestampMs)
           result == attributeEvent(e, activeSessions)
           lg1 == AppendedLog(lg, "events", [type |-> "upsert", event |-> e])
       IN LoopAppends(AppendedLog(lg1, "attributions",
                                  [type |-> "upsert", attribution |-> result.attribution]),
                      s, Tail(events))

OverlapStep(lg) ==
  /\ log' = lg
  /\ UNCHANGED <<scope, now, snap, lock, derived, hist, quiet, pre, bk, ilv, fetched, disk>>
  /\ UNCHANGED procVars /\ UNCHANGED syncVars /\ UNCHANGED pureVars /\ UNCHANGED trackerVars

\* runSync up to its first await: the cursor is read, the window computed
OverlapStart(r, opts) ==
  /\ ov[r].pc = "idle"
  /\ ov[r].calls < MaxOverlapCalls
  /\ LET previousHighWater == CursorMs(SyncSource(opts.mode))
     IN ov' = [ov EXCEPT ![r] = [pc |-> "fetching", opts |-> opts,
                                 previousHighWater |-> previousHighWater,
                                 effectiveStartMs |-> effectiveStartMs(opts.startMs, previousHighWater),
                                 calls |-> @.calls + 1]]
  /\ OverlapStep(log)

\* The token is missing or the fetch rejects: the catch block
OverlapCatch(r, lastError) ==
  /\ ov[r].pc = "fetching"
  /\ ov' = [ov EXCEPT ![r].pc = "idle"]
  /\ OverlapStep(AppendedLog(log, "sync_state",
                             [type |-> "upsert",
                              state |-> [source |-> SyncSource(ov[r].opts.mode),
                                         lastFetchedMs |-> ov[r].previousHighWater,
                                         lastSyncAtMs |-> now, lastError |-> lastError]]))

\* The fetch resolves: the loop, then the cursor record
OverlapFinish(r, events) ==
  /\ ov[r].pc = "fetching"
  /\ ov' = [ov EXCEPT ![r].pc = "idle"]
  /\ OverlapStep(AppendedLog(LoopAppends(log, snap, events), "sync_state",
                             [type |-> "upsert",
                              state |-> [source |-> SyncSource(ov[r].opts.mode),
                                         lastFetchedMs |-> MaxTimestamp(events, ov[r].previousHighWater),
                                         lastSyncAtMs |-> now]]))

InitOverlap ==
  /\ scope = {}
  /\ InitSyncStore

NextOverlap ==
  \/ \E r \in OverlapRuns, m \in SyncModes, st \in SyncStarts :
       OverlapStart(r, [mode |-> m, startMs |-> st, endMs |-> now])
  \/ \E r \in OverlapRuns, lastError \in {NoTokenError, FetchError} : OverlapCatch(r, lastError)
  \/ \E r \in OverlapRuns, events \in SeqsUpTo(FetchedEvents, MaxFetched) : OverlapFinish(r, events)

SpecOverlap == InitOverlap /\ [][NextOverlap]_vars

\* C28: while two runSync executions for one source overlap, whatever mix of
\* them succeeds or fails, the lastFetchedMs that SyncStateRepository.get
\* returns is never below a value it returned before.
C28_CursorNeverRegresses ==
  [][\A m \in SyncModes :
       CursorMsOf(snap'["sync_state"], log'["sync_state"], SyncSource(m))
         >= CursorMs(SyncSource(m))]_vars

----------------------------------------------------------------------------
(* The derived index against the stored events and attributions *)

\* The index entries the derived file holds
DerivedRows(d) == IF d.st = "index" THEN d.byProjectByDay ELSE {}

\* Every stored event joined with the latest attribution of its eventId
JoinedRows(h) ==
  byProjectByDay(getAllOf("events", h["events"]), getAllOf("attributions", h["attributions"]))

\* C29: when a compaction of the events or of the attributions store returns,
\* the other of the two compacted before or never, the derived index holds
\* for each project and UTC day the cost, count and confidence sum of the
\* stored events of that day joined with the latest attribution per eventId,
\* an event with no attribution under 'unattributed' with confidence 0.
C29_DerivedIndexJoinsAll ==
  [][(CompactReturnsOk(1) /\ pkind[1] \in {"events", "attributions"}
        /\ log[pkind[1]].exists) =>
       DerivedRows(derived') = JoinedRows(hist')]_vars

----------------------------------------------------------------------------
(* The temp-file writes of compact, one system call at a time, in two
   processes that hold the locks of two different kinds *)

MaxCompactCalls == 1    \* compactions one process runs

DiskStep(d) ==
  /\ disk' = d
  /\ UNCHANGED <<scope, now, bk, ilv, fetched, ov>>
  /\ UNCHANGED storeVars /\ UNCHANGED procVars /\ UNCHANGED ghostVars
  /\ UNCHANGED syncVars /\ UNCHANGED pureVars /\ UNCHANGED trackerVars

\* compact(kind) has taken the lock of its kind and read the records
DiskCompact(p) ==
  /\ disk.at[p].sys = "idle"
  /\ disk.calls[p] < MaxCompactCalls
  /\ DiskStep([disk EXCEPT !.calls[p] = @ + 1,
                           !.at[p] = [stage |-> 1, sys |-> "open"]])

\* writeFileSync(tmp), the open: the temp file is created, or truncated if
\* the name exists
TmpOpen(p) ==
  /\ disk.at[p].sys = "open"
  /\ LET tmp == TmpFile(p, Stages[disk.at[p].stage])
         ino == IF disk.names[tmp] # 0 THEN disk.names[tmp] ELSE Len(disk.inodes) + 1
     IN DiskStep([disk EXCEPT !.names[tmp] = ino,
                              !.inodes = IF disk.names[tmp] # 0
                                           THEN [disk.inodes EXCEPT ![ino] = Truncated]
                                           ELSE Append(disk.inodes, Truncated),
                              !.fd[p] = ino,
                              !.at[p].sys = "write1"])

\* writeFileSync(tmp), the writes: each lays down one half at its offset in
\* the file the descriptor is open on, whatever name that file has by now
TmpWrite(p) ==
  /\ disk.at[p].sys \in {"write1", "write2"}
  /\ LET i == IF disk.at[p].sys = "write1" THEN 1 ELSE 2
     IN DiskStep([disk EXCEPT !.inodes[disk.fd[p]][i] = Chunk(p, disk.calls[p], i),
                              !.at[p].sys = IF i = 1 THEN "write2" ELSE "rename"])

\* renameSync(tmp, file): the name of the target now leads to the temp file
TmpRename(p) ==
  /\ disk.at[p].sys = "rename"
  /\ LET stage == disk.at[p].stage
         tmp == TmpFile(p, Stages[stage])
         file == TargetFile(p, Stages[stage])
     IN /\ disk.names[tmp] # 0
        /\ DiskStep([disk EXCEPT !.names[file] = disk.names[tmp],
                                 !.names[tmp] = 0,
                                 !.fd[p] = 0,
                                 !.at[p] = IF stage < Len(Stages)
                                             THEN [stage |-> stage + 1, sys |-> "open"]
                                             ELSE [stage |-> 0, sys |-> "idle"]])

\* renameSync(tmp, file) when the temp name is gone: ENOENT, compact throws
TmpRenameThrows(p) ==
  /\ disk.at[p].sys = "rename"
  /\ disk.names[TmpFile(p, Stages[disk.at[p].stage])] = 0
  /\ DiskStep([disk EXCEPT !.fd[p] = 0, !.at[p] = [stage |-> 0, sys |-> "idle"],
                           !.threw[p] = TRUE])

InitDisk ==
  /\ scope = {}
  /\ InitStore /\ InitProcs /\ InitSync /\ InitPure /\ InitNoTracker /\ InitAux

NextDisk ==
  \/ \E p \in Writers : DiskCompact(p)
  \/ \E p \in Writers : TmpOpen(p)
  \/ \E p \in Writers : TmpWrite(p)
  \/ \E p \in Writers : TmpRename(p)
  \/ \E p \in Writers : TmpRenameThrows(p)

SpecDisk == InitDisk /\ [][NextDisk]_vars

\* Both halves of one write of one writer
Complete(content) ==
  /\ content[1].w >= 0
  /\ content[1] = Chunk(content[1].w, content[1].c, 1)
  /\ content[2] = Chunk(content[1].w, content[1].c, 2)

\* C30: at every instant each snapshot, each log and the derived index, read
\* by its name, is a completely written file: what it held before a
\* replacement or what the replacement wrote, never part of a write.
C30_NoHalfWrittenFile ==
  \A file \in Targets :
    disk.names[file] # 0 => Complete(disk.inodes[disk.names[file]])

----------------------------------------------------------------------------
(* The lock a dead compactor left behind *)

\* C31: the cleanup of acquireLock removes a lock file only when that file
\* is older than LOCK_STALE_MS, and a compact call that found a stale lock,
\* no other call under way, has the lock after its open.
C31_StaleLockCleared ==
  [][\A p \in Procs :
       /\ (pc[p] = "unlink" /\ pc'[p] = "open" /\ lock[pkind[p]].st = "held") =>
            IsStale(lock[pkind[p]], now)
       /\ (pc[p] = "open" /\ pc'[p] # "open" /\ pstale[p]
             /\ \A q \in Procs \ {p} : pc[q] = "idle") =>
            (pheld'[p] /\ lock'[pkind[p]].pid = p)]_vars

----------------------------------------------------------------------------
(* What the tracker writes when the workspace folders change *)

\* onDidChangeWorkspaceFolders has been handled in this step
WorkspaceHandled == signal'.op = "workspace" /\ env'.signals = env.signals + 1

\* The folders now open have the identity of the open session
SameIdentity ==
  /\ trk.currentSessionId # Null
  /\ env'.folders # <<>>
  /\ computeProjectIdentity(env'.folders[1]).projectKey = trk.currentProjectKey

\* C32: a workspace-changed signal handled while a session is open writes
\* nothing when the identity of the workspace is the one of that session; when
\* the identity is another one, the session is closed with endMs the time of
\* the signal and a session of the new identity is open.
C32_WorkspaceSignalIdentity ==
  [][(WorkspaceHandled /\ trk.currentSessionId # Null /\ env'.folders # <<>>) =>
       IF SameIdentity
         THEN /\ log'["sessions"] = log["sessions"]
              /\ trk'.currentSessionId = trk.currentSessionId
         ELSE /\ \E s \in Range(getAllOf("sessions", readJsonlOf(snap'["sessions"], log'["sessions"]))) :
                   s.id = trk.currentSessionId /\ Has(s, "endMs") /\ s.endMs = now
              /\ \E s \in Range(getAllOf("sessions", readJsonlOf(snap'["sessions"], log'["sessions"]))) :
                   /\ s.id = trk'.currentSessionId /\ ~Has(s, "endMs")
                   /\ s.projectKey = computeProjectIdentity(env'.folders[1]).projectKey]_vars

\* The sessions of an ideInstanceId that the store holds with no endMs
OpenSessionsOf(ideInstanceId) ==
  {s \in Range(getAll("sessions")) : s.ideInstanceId = ideInstanceId /\ ~Has(s, "endMs")}

\* C33: after a workspace-changed signal that leaves no folder open the
\* tracker has no current session and the store holds no open session of its
\* instance, and while no folder is open no signal opens one.
C33_NoWorkspaceNoSession ==
  (trk.started /\ signal.op # "start" /\ env.folders = <<>>) =>
    /\ trk.currentSessionId = Null
    /\ OpenSessionsOf(trk.ideInstanceId) = {}

\* C34: the focused and idle values a reader reconstructs for a session are
\* those it was created with: no signal the tracker handles changes them for
\* a session already in the store.
C34_SegmentFlagsStable ==
  [][\A s \in Range(getAll("sessions")) :
       \A t \in Range(getAllOf("sessions", readJsonlOf(snap'["sessions"], log'["sessions"]))) :
         t.id = s.id => (t.focused = s.focused /\ t.idle = s.idle)]_vars

----------------------------------------------------------------------------
(* dispose *)

\* dispose() runs in this step
Disposing == ~trk.disposed /\ trk'.disposed

\* C35: dispose leaves the tracker with no timer, no listener and no current
\* session whether or not the close write succeeded; the session that was
\* open is in the store with an endMs read during dispose, or, the write
\* having failed, the store is as it was; after dispose the tracker writes
\* nothing more.
C35_DisposeClosesAndStops ==
  [][/\ Disposing =>
          /\ ~trk'.timer /\ ~trk'.listening
          /\ trk'.currentSessionId = Null
          /\ trk.currentSessionId # Null =>
               \/ log'["sessions"] = log["sessions"]
               \/ \E s \in Range(getAllOf("sessions", readJsonlOf(snap'["sessions"], log'["sessions"]))) :
                    /\ s.id = trk.currentSessionId
                    /\ Has(s, "endMs") /\ now <= s.endMs /\ s.endMs <= now'
          /\ log'["projects"] = log["projects"]
     /\ trk.disposed => (log' = log /\ trk' = trk)]_vars

\* dispose has returned after a close write that failed
C35_Witness ==
  /\ signal.op = "dispose" /\ trk.disposed
  /\ signal.open # Null
  /\ HasSession(signal.open)
  /\ ~Has(SessionById(signal.open), "endMs")
  /\ trk.currentSessionId = Null /\ ~trk.timer /\ ~trk.listening

----------------------------------------------------------------------------
(* The retry-after hint *)

\* C36: every wait of withBackoff that follows a failure carrying a
\* retry-after hint is at least the hinted duration, and at most the hint
\* plus the jitter.
C36_HintHonoured ==
  \A i \in DOMAIN bk.delays :
    bk.hints[i] # Undefined =>
      /\ bk.delays[i] >= bk.hints[i].ms
      /\ bk.delays[i] < bk.hints[i].ms + JITTER_MS

----------------------------------------------------------------------------
(* Reading what was just appended *)

\* append(kind, record) has returned in this step
Appended(kind) == Len(hist'[kind]) = Len(hist[kind]) + 1

\* C37: when append(kind, record) has returned, readAll(kind) holds that
\* record, whether or not a snapshot of the kind exists.
C37_ReadYourWrites ==
  [][\A kind \in Kinds :
       Appended(kind) =>
         hist'[kind][Len(hist'[kind])] \in Range(readJsonlOf(snap'[kind], log'[kind]))]_vars


-----------------------------------------------------------------------------
(* reviewAttribution *)

REVIEW_WINDOW_MS == 604800000

MANUAL_REASON == "Manual reassignment"

\* The events of the last seven days whose attribution is missing,
\* 'unattributed' or below 0.7
ReviewCandidates ==
  LET events == getByTimeRange(now - REVIEW_WINDOW_MS, now)
      attrs == getAll("attributions")
      Low(e) == \A i \in DOMAIN attrs :
                  attrs[i].eventId = e.eventId =>
                    \/ attrs[i].projectKey = "unattributed"
                    \/ FracLess(attrs[i].confidence, Frac(7, 10))
  IN SelectSeq(events, Low)

\* One picked event is assigned to the picked project
reviewAttribution(eventId, target) ==
  /\ syncPc = "idle"
  /\ \E i \in DOMAIN ReviewCandidates : ReviewCandidates[i].eventId = eventId
  /\ \E j \in DOMAIN getAll("projects") : getAll("projects")[j].projectKey = target
  /\ LET record == [eventId |-> eventId, projectKey |-> target,
                    confidence |-> Frac(1, 1), reason |-> MANUAL_REASON,
                    timestampMs |-> now]
         attributionRecord == [type |-> "upsert", attribution |-> record]
     IN /\ log' = AppendedLog(log, "attributions", attributionRecord)
        /\ hist' = AppendedHist(hist, log, "attributions", attributionRecord)
  /\ UNCHANGED <<scope, now, snap, lock, derived, quiet>>
  /\ UNCHANGED procVars /\ UNCHANGED syncVars /\ UNCHANGED pureVars
  /\ UNCHANGED trackerVars /\ UNCHANGED auxVars

ProjectLog ==
  <<[type |-> "upsert", project |-> [projectKey |-> "p1", lastActiveAt |-> 1]],
    [type |-> "upsert", project |-> [projectKey |-> "p2", lastActiveAt |-> 1]]>>

\* The extension was started after the usage event e1 was incurred
ReviewSessionLog ==
  <<[type |-> "create", session |-> [id |-> "s1", projectKey |-> "p1", startMs |-> 200000,
                                     focused |-> TRUE, idle |-> FALSE, ideInstanceId |-> "i1"]]>>

\* A store that knows two projects and the session s1
InitReview ==
  /\ scope = {}
  /\ now = StartMs
  /\ log = [k \in Kinds |->
              CASE k = "sessions" ->
                     [exists |-> TRUE,
                      lines |-> [i \in DOMAIN ReviewSessionLog |-> JsonLine(ReviewSessionLog[i])],
                      open |-> FALSE]
                [] k = "projects" ->
                     [exists |-> TRUE,
                      lines |-> [i \in DOMAIN ProjectLog |-> JsonLine(ProjectLog[i])],
                      open |-> FALSE]
                [] OTHER -> NoLog]
  /\ hist = [k \in Kinds |-> CASE k = "sessions" -> ReviewSessionLog
                               [] k = "projects" -> ProjectLog
                               [] OTHER -> <<>>]
  /\ snap = [k \in Kinds |-> NoSnap]
  /\ lock = [k \in Kinds |-> NoLock]
  /\ derived = NoDerived
  /\ quiet = [k \in Kinds |-> FALSE]
  /\ InitProcs /\ InitSync /\ InitPure /\ InitNoTracker /\ InitAux

\* runSync calls one after the other, and reviews between them
NextReview ==
  \/ \E m \in SyncModes, st \in SyncStarts :
       SyncStart([mode |-> m, startMs |-> st, endMs |-> now])
  \/ SyncNoToken
  \/ SyncFetchCall
  \/ SyncFetchFail
  \/ \E evs \in SeqsUpTo(FetchedEvents, MaxFetched) : SyncFetchOk(evs)
  \/ SyncIngest
  \/ SyncFinish
  \/ \E id \in {"e1", "e2"}, target \in {"p1", "p2"} : reviewAttribution(id, target)

SpecReview == InitReview /\ [][NextReview]_vars

IsManual(a) == Has(a, "reason") /\ a.reason = MANUAL_REASON

\* C38: once the current attribution of an event is a manual reassignment
\* (confidence 1.0, reason 'Manual reassignment'), no step of a later runSync
\* changes what AttributionRepository.getByEventId returns for that event.
C38_ManualReassignmentDurable ==
  [][\A id \in {"e1", "e2"} :
       IsManual(getByEventId(id)) =>
         LastAttribution(readJsonlOf(snap'["attributions"], log'["attributions"]),
                         id, Undefined) = getByEventId(id)]_vars


\* The instants at which a session of the store starts or ends
Boundaries ==
  {s.startMs : s \in Range(getAll("sessions"))}
    \cup {s.endMs : s \in {x \in Range(getAll("sessions")) : Has(x, "endMs")}}

EventAt(t) == [eventId |-> "e1", timestampMs |-> t, cost |-> [totalCents |-> 5]]

\* C39: of the sessions written by one tracker, at most one is active at any
\* instant under the active-window test (startMs <= t and endMs absent or
\* >= t), the instants of a rotation or workspace change included, and an
\* event stamped at such an instant is attributed without a conflict.
C39_SegmentsNeverCompete ==
  \A t \in Boundaries :
    /\ Len(getActiveSessions(t)) <= 1
    /\ attributeEvent(EventAt(t), getActiveSessions(t)).conflicts = <<>>


\* Both processes have run their compaction to its end
BothCompacted == \A p \in Writers : disk.calls[p] > 0 /\ disk.at[p].sys = "idle"

\* C40: when one process has compacted 'events' and another 'attributions' at
\* the same time, each under the lock of its own kind, neither compaction
\* threw and the derived index file is the complete output of one of the two
\* rebuilds.
C40_ConcurrentRebuildsSafe ==
  BothCompacted =>
    /\ \A p \in Writers : ~disk.threw[p]
    /\ disk.names[DerivedFile] # 0
    /\ LET content == disk.inodes[disk.names[DerivedFile]]
       IN Complete(content) /\ content[1].w \in Writers

====
